---- MODULE Spec2Model ----
(***************************************************************************)
(* A model of parts of sinabro:                                            *)
(*   - the tc classifier programs of src/ebpf/src/main.rs (source NAT on   *)
(*     egress, de-NAT on ingress, the shared maps), under SpecNat;         *)
(*   - the netlink request engine of src/rsln/src/handle/sock_handle.rs    *)
(*     (SocketHandle::request) talking to a kernel, under SpecReq;         *)
(*   - the overlay programmer and the agent's bootstrap, under SpecOverlay *)
(*     and SpecMain;                                                       *)
(*   - the address allocator and its HTTP server of src/agent/src/server,  *)
(*     under SpecIpam.                                                     *)
(***************************************************************************)
EXTENDS Integers, Sequences, FiniteSets, TLC

VARIABLES
    \* ---- kernel maps of the packet-rewrite program
    NET_CONFIG_MAP,   \* u8 -> NetworkInfo (a function on the keys present)
    NODE_MAP,         \* the set of keys of NODE_MAP (its values are all 0)
    SNAT_IPV4_MAP,    \* NatKey -> OriginValue (a function on the keys present)
    last,             \* the packet the classifier handled last: input, output, verdict
    lastNatOf,        \* history: post-NAT 4-tuple -> origin of the latest packet NATed to it
    tracked,          \* history: one NATed flow, chosen arbitrarily among those NATed
    \* ---- the netlink request engine
    seq,              \* SocketHandle.seq
    rcvQueue,         \* datagrams queued on the socket, unread
    call,             \* the request() call in progress, or its return value
    sentLog,          \* history: the sequence numbers stamped on requests, in order
    \* ---- the NAT port choice taken by itself
    natPort,          \* the last call of snat_try_keep_port: its inputs and result
    \* ---- the host's datapath and the programs that set it up
    kernel,           \* links, addresses, routes and neighbor entries of the host
    prog,             \* the overlay programmer: its position, results and peer tasks
    agent,            \* the agent's bootstrap (main): its position and result
    \* ---- the address allocator and its HTTP server
    ip_store,         \* Ipam.ip_store: the free set behind its mutex, and the mutex's poison flag
    store_file,       \* the file at Ipam.store_path
    server,           \* api_server::start: its position, and how often it was started
    requests,         \* the HTTP requests accepted since the server started, in order of arrival
    served,           \* history: the handler bodies run since the server started, in order
    \* ---- the sock-ops program and its socket map
    SOCK_OPS_MAP,     \* SockKey -> socket (a function on the keys present)
    socks,            \* the TCP sockets of the host: state, callback flags, what the program returned
    \* ---- the netlink message frame: building, serializing and parsing
    frame,            \* the Message being built with what was added to it, its serialization, and the last buffer parsed
    \* ---- the attribute codec: trees built, serialized and parsed
    bench,            \* the RouteAttr values under construction (a stack), the bytes serialized and what was parsed from them
    \* ---- RouteHandle::handle (rsln): one netlink socket and the route requests made on it
    route_handle,     \* the socket's seq, the request it sent last, and the last handle() call
    \* ---- BpfLoader::load: the classifiers attached to the uplink and the maps written
    bpf,              \* where load() stands, and the classifiers attached to the interface
    \* ---- The Sinabro controller of src/agent/src/controller.rs: one object of the API server and the reconciler
    ctl,              \* the Sinabro object on the API server, the TestRequested events published, and the last reconcile (history)
    \* ---- SocketHandle and its typed handles: who holds the socket descriptor
    sk,               \* the engine, the typed handle made from it, the descriptor in the process's table, and what was done to it (history)
    \* ---- The CNI plugin of src/cni: ADD and DEL on the containers of one node
    cni               \* whether the allocator is up, and per container what ADD and DEL have left: symlink, veth, address, and what they returned

natVars == <<NET_CONFIG_MAP, NODE_MAP, SNAT_IPV4_MAP, last, lastNatOf, tracked>>
reqVars == <<seq, rcvQueue, call, sentLog>>
portVars == <<natPort>>
hostVars == <<kernel, prog, agent>>
ipamVars == <<ip_store, store_file, server, requests, served>>
sockVars == <<SOCK_OPS_MAP, socks>>
frameVars == <<frame>>
attrVars == <<bench>>
routeVars == <<route_handle>>
bpfVars == <<bpf>>
ctlVars == <<ctl>>
skVars == <<sk>>
cniVars == <<cni>>
vars == <<NET_CONFIG_MAP, NODE_MAP, SNAT_IPV4_MAP, last, lastNatOf, tracked,
          seq, rcvQueue, call, sentLog, natPort, kernel, prog, agent,
          ip_store, store_file, server, requests, served,
          SOCK_OPS_MAP, socks,
          frame,
          bench,
          route_handle,
          bpf,
          ctl,
          sk,
          cni>>

\* What the steps of one part leave alone: the variables of the other parts.
natOthers == <<reqVars, portVars, hostVars, ipamVars, sockVars, frameVars, attrVars, routeVars, bpfVars, ctlVars, skVars, cniVars>>
reqOthers == <<natVars, portVars, hostVars, ipamVars, sockVars, frameVars, attrVars, routeVars, bpfVars, ctlVars, skVars, cniVars>>
portOthers == <<natVars, reqVars, hostVars, ipamVars, sockVars, frameVars, attrVars, routeVars, bpfVars, ctlVars, skVars, cniVars>>
hostOthers == <<natVars, reqVars, portVars, ipamVars, sockVars, frameVars, attrVars, routeVars, bpfVars, ctlVars, skVars, cniVars>>
ipamOthers == <<natVars, reqVars, portVars, hostVars, sockVars, frameVars, attrVars, routeVars, bpfVars, ctlVars, skVars, cniVars>>
sockOthers == <<natVars, reqVars, portVars, hostVars, ipamVars, frameVars, attrVars, routeVars, bpfVars, ctlVars, skVars, cniVars>>
frameOthers == <<natVars, reqVars, portVars, hostVars, ipamVars, sockVars, attrVars, routeVars, bpfVars, ctlVars, skVars, cniVars>>
attrOthers == <<natVars, reqVars, portVars, hostVars, ipamVars, sockVars, frameVars, routeVars, bpfVars, ctlVars, skVars, cniVars>>
routeOthers == <<natVars, reqVars, portVars, hostVars, ipamVars, sockVars, frameVars, attrVars, bpfVars, ctlVars, skVars, cniVars>>
bpfOthers == <<natVars, reqVars, portVars, hostVars, ipamVars, sockVars, frameVars, attrVars, routeVars, ctlVars, skVars, cniVars>>
\* What a step of load() leaves alone: all but the maps and its own place.
loadOthers == <<reqVars, portVars, hostVars, ipamVars, sockVars, frameVars, attrVars, routeVars, ctlVars, skVars, cniVars>>
\* What a step of the CNI plugin leaves alone: all but the allocator's free
\* set and its own variable.
cniRest == <<natVars, reqVars, portVars, hostVars, store_file, server, requests, served,
             sockVars, frameVars, attrVars, routeVars, bpfVars, ctlVars, skVars>>
ctlOthers == <<natVars, reqVars, portVars, hostVars, ipamVars, sockVars, frameVars, attrVars, routeVars, bpfVars, skVars, cniVars>>
skOthers == <<natVars, reqVars, portVars, hostVars, ipamVars, sockVars, frameVars, attrVars, routeVars, bpfVars, ctlVars, cniVars>>
cniOthers == <<natVars, reqVars, portVars, hostVars, ipamVars, sockVars, frameVars, attrVars, routeVars, bpfVars, ctlVars, skVars>>

(***************************************************************************)
(* Integers.  A u32 is a pair <<high 16 bits, low 16 bits>>, a u16 a       *)
(* number in 0..65535.  On the wire an address is its 4 bytes and a port   *)
(* its 2 bytes, in network order.                                          *)
(***************************************************************************)
RECURSIVE BitAnd(_, _, _)
BitAnd(x, y, n) ==
    IF n = 0 \/ x = 0 \/ y = 0 THEN 0
    ELSE (x % 2) * (y % 2) + 2 * BitAnd(x \div 2, y \div 2, n - 1)

And32(a, b) == <<BitAnd(a[1], b[1], 16), BitAnd(a[2], b[2], 16)>>

from_be32(b) == <<b[1] * 256 + b[2], b[3] * 256 + b[4]>>
to_be32(v) == <<v[1] \div 256, v[1] % 256, v[2] \div 256, v[2] % 256>>
from_be16(b) == b[1] * 256 + b[2]
to_be16(p) == <<p \div 256, p % 256>>
as_u16(v) == v[2]

Ip(a, b, c, d) == <<a * 256 + b, c * 256 + d>>

(***************************************************************************)
(* Program constants.                                                      *)
(***************************************************************************)
CLUSTER_CIDR_KEY == 0
HOST_IP_KEY == 1
TC_ACT_SHOT == 2
TC_ACT_PIPE == 3
EthHdrLEN == 14
Ipv4HdrLEN == 20
TcpHdrLEN == 20
SNAT_PORT_START == 30000
SNAT_PORT_END == 60000

\* The capacity of SNAT_IPV4_MAP: 128 in the program, scaled down here.
SnatMaxEntries == 2

(***************************************************************************)
(* The configuration the loader leaves in the maps, and the packets.       *)
(***************************************************************************)
HostIp == Ip(10, 0, 0, 1)
PeerNodeIp == Ip(10, 0, 0, 2)
Pod1 == Ip(10, 244, 0, 5)
Pod2 == Ip(10, 244, 0, 6)
RemotePod == Ip(10, 244, 1, 7)
External == Ip(200, 8, 8, 8)

NetworkInfo(ip, mask) == [ip |-> ip, subnet_mask |-> mask]

LoadedConfig ==
    (CLUSTER_CIDR_KEY :> NetworkInfo(Ip(10, 244, 0, 0), <<65535, 0>>))
    @@ (HOST_IP_KEY :> NetworkInfo(HostIp, <<0, 0>>))

LoadedNodes == {HostIp, PeerNodeIp}

\* The Internet checksum as a receiver computes it (RFC 1071): the 16-bit
\* words in network order are added and the carries folded back in; a header
\* verifies when the sum over all its words, checksum included, is 0xffff.
RECURSIVE SumWords(_)
SumWords(words) == IF words = <<>> THEN 0 ELSE Head(words) + SumWords(Tail(words))

RECURSIVE Fold16(_)
Fold16(n) == IF n < 65536 THEN n ELSE Fold16((n % 65536) + (n \div 65536))

\* The words of the IPv4 header: version/ihl/tos, total length, id, flags,
\* ttl/protocol, checksum, addresses.
Ipv4Words(pkt) ==
    <<17664, 40, from_be16(pkt.id), 16384, 16390, from_be16(pkt.check),
      from_be16(SubSeq(pkt.src_addr, 1, 2)), from_be16(SubSeq(pkt.src_addr, 3, 4)),
      from_be16(SubSeq(pkt.dst_addr, 1, 2)), from_be16(SubSeq(pkt.dst_addr, 3, 4))>>

\* The words the TCP checksum covers: the pseudo-header (addresses, protocol
\* 6, length 20) and the TCP header (ports, seq, ack, offset/flags, window,
\* checksum, urgent pointer); no payload.
TcpWords(pkt) ==
    <<from_be16(SubSeq(pkt.src_addr, 1, 2)), from_be16(SubSeq(pkt.src_addr, 3, 4)),
      from_be16(SubSeq(pkt.dst_addr, 1, 2)), from_be16(SubSeq(pkt.dst_addr, 3, 4)),
      6, 20,
      from_be16(pkt.source), from_be16(pkt.dest), 0, from_be16(pkt.seq), 0, 0,
      20482, 8192, from_be16(pkt.tcp_check), 0>>

Ipv4ChecksumOk(pkt) == Fold16(SumWords(Ipv4Words(pkt))) = 65535
TcpChecksumOk(pkt) == Fold16(SumWords(TcpWords(pkt))) = 65535

\* The packet with the checksums its sender computes.
Checksummed(pkt) ==
    LET blank == [pkt EXCEPT !.check = <<0, 0>>, !.tcp_check = <<0, 0>>] IN
    [pkt EXCEPT !.check = to_be16(65535 - Fold16(SumWords(Ipv4Words(blank)))),
                !.tcp_check = to_be16(65535 - Fold16(SumWords(TcpWords(blank))))]

\* A TCP segment with the IPv4 id and the low word of the sequence number
\* given.
TcpPacketOf(s, sp, d, dp, id, sq) ==
    Checksummed(
        [len |-> 54, ether_type |-> "Ipv4", proto |-> "Tcp",
         src_addr |-> to_be32(s), dst_addr |-> to_be32(d),
         source |-> to_be16(sp), dest |-> to_be16(dp),
         id |-> to_be16(id), seq |-> to_be16(sq),
         check |-> <<0, 0>>, tcp_check |-> <<0, 0>>])

TcpPacket(s, sp, d, dp) == TcpPacketOf(s, sp, d, dp, 0, 0)

\* Packets that are not TCP over IPv4, or too short to hold the headers.
OtherPackets ==
    LET p == TcpPacket(Pod1, 4000, External, 443) IN
    { [p EXCEPT !.ether_type = "Ipv6"],
      [p EXCEPT !.proto = "Udp"],
      [p EXCEPT !.len = 10],
      [p EXCEPT !.len = 20],
      [p EXCEPT !.len = 40] }

EgressSrcPorts == {4000, 30000, 60000}

\* Pod packets to the outside (these are NATed), and one packet of each kind
\* that is not: to a pod, to a node, from the host itself.
EgressPackets ==
    { TcpPacket(s, sp, External, 443) : s \in {Pod1, Pod2}, sp \in EgressSrcPorts }
    \cup { TcpPacket(Pod1, 4000, RemotePod, 443),
           TcpPacket(Pod1, 30000, PeerNodeIp, 443),
           TcpPacket(HostIp, 30000, External, 443),
           TcpPacket(PeerNodeIp, 4000, External, 443),
           [TcpPacket(Pod1, 4000, RemotePod, 443) EXCEPT !.len = 40] }
    \cup OtherPackets

\* Replies from the outside to the host's NAT ports, and one packet of each
\* kind that is not.
IngressPackets ==
    { TcpPacket(External, 443, HostIp, dp) : dp \in {4000, 30000, 35535, 60000} }
    \cup { TcpPacket(External, 80, HostIp, 30000),
           TcpPacket(RemotePod, 443, HostIp, 30000),
           TcpPacket(PeerNodeIp, 443, HostIp, 30000),
           TcpPacket(External, 443, Pod1, 4000) }
    \cup OtherPackets

\* The word that brings the sum of words to 0xffff: with it in the id or in
\* the sequence number the checksum of the header is 0, or 0xffff.
EdgeWord(words) == 65535 - Fold16(SumWords(words))

\* A packet and, where a checksum of it is 0, the packets with 0xffff there,
\* which verify as well.
WithOtherZero(pkt) ==
    {pkt}
    \cup (IF pkt.check = <<0, 0>> THEN {[pkt EXCEPT !.check = <<255, 255>>]} ELSE {})
    \cup (IF pkt.tcp_check = <<0, 0>> THEN {[pkt EXCEPT !.tcp_check = <<255, 255>>]} ELSE {})

\* The segments from s:sp to d:dp whose id and sequence number are 0 or put
\* a checksum at 0 either as the segment arrives or as it is in one of the
\* forms of `after`, <<s, sp, d, dp>> each, that a rewrite gives it.
ChecksumPacketsOf(s, sp, d, dp, after) ==
    LET blank(t) == [TcpPacketOf(t[1], t[2], t[3], t[4], 0, 0)
                        EXCEPT !.check = <<0, 0>>, !.tcp_check = <<0, 0>>]
        forms == {<<s, sp, d, dp>>} \cup after
        ids == {0} \cup { EdgeWord(Ipv4Words(blank(t))) : t \in forms }
        seqs == {0} \cup { EdgeWord(TcpWords(blank(t))) : t \in forms }
    IN UNION { WithOtherZero(TcpPacketOf(s, sp, d, dp, i, q)) : i \in ids, q \in seqs }

\* Pod segments to the outside, with the forms the NAT gives them.
ChecksumEgressPackets ==
    ChecksumPacketsOf(Pod1, 4000, External, 443,
                      {<<HostIp, 30000, External, 443>>, <<HostIp, 35535, External, 443>>})
    \cup ChecksumPacketsOf(Pod1, 30000, External, 443, {<<HostIp, 30000, External, 443>>})

\* The replies to them, with the forms the NAT gives them.
ChecksumIngressPackets ==
    ChecksumPacketsOf(External, 443, HostIp, 30000,
                      {<<External, 443, Pod1, 4000>>, <<External, 443, Pod1, 30000>>})
    \cup ChecksumPacketsOf(External, 443, HostIp, 35535, {<<External, 443, Pod1, 4000>>})

\* The values bpf_get_prandom_u32() returns here.
RandVals == {<<0, 0>>, <<7, 65535>>}

(***************************************************************************)
(* The classifier programs.                                                *)
(***************************************************************************)
Ok(ret, pkt, map) == [ok |-> TRUE, ret |-> ret, pkt |-> pkt, map |-> map]
Err(pkt, map) == [ok |-> FALSE, ret |-> TC_ACT_SHOT, pkt |-> pkt, map |-> map]

\* ctx.load(offset): fails when the packet ends before offset + size.
CanLoad(pkt, offset, size) == pkt.len >= offset + size

is_node_ip(ip) == ip \in NODE_MAP

\* A slip in the containment test: without the short-circuit on node addresses.
is_ip_in_cidr_mask_only(ip, cidr) ==
    And32(cidr.ip, cidr.subnet_mask) = And32(ip, cidr.subnet_mask)

is_ip_in_cidr(ip, cidr) ==
    IF is_node_ip(ip) THEN TRUE
    ELSE And32(cidr.ip, cidr.subnet_mask) = And32(ip, cidr.subnet_mask)

snat_clamp_port_range(start, end, val) == (val % (end - start)) + start

\* A slip in the range test: the bounds themselves are not kept.
snat_try_keep_port_exclusive(start, end, val, rnd) ==
    IF val > start /\ val < end THEN val
    ELSE snat_clamp_port_range(start, end, as_u16(rnd))

snat_try_keep_port(start, end, val, rnd) ==
    IF val >= start /\ val <= end THEN val
    ELSE snat_clamp_port_range(start, end, as_u16(rnd))

(* The kernel's checksum helpers.  The programs run on little-endian hosts: *)
(* a u16 or u32 of the packet is read low byte first, and a 32-bit sum is   *)
(* the pair <<high 16 bits, low 16 bits>>.                                  *)
BPF_F_PSEUDO_HDR == 16
BPF_F_HDR_FIELD_MASK == 15

load16(b) == b[1] + 256 * b[2]
store16(v) == <<v % 256, v \div 256>>

\* csum_add: 32-bit addition, the carry added back in
csum_add(a, b) ==
    LET lo == a[2] + b[2]
        hi == a[1] + b[1] + (lo \div 65536)
        l2 == (lo % 65536) + (hi \div 65536)
    IN <<((hi % 65536) + (l2 \div 65536)) % 65536, l2 % 65536>>

csum_not(a) == <<65535 - a[1], 65535 - a[2]>>

\* csum_sub(a, b) is csum_add(a, ~b)
csum_sub(a, b) == csum_add(a, csum_not(b))

csum_unfold(v) == <<0, v>>

\* csum_fold: the two halves added, the carry folded, the result complemented
csum_fold(a) == 65535 - Fold16(a[1] + a[2])

\* csum_partial over bytes, two at a time, onto seed
RECURSIVE csum_partial(_, _)
csum_partial(bytes, seed) ==
    IF bytes = <<>> THEN seed
    ELSE csum_partial(SubSeq(bytes, 3, Len(bytes)),
                      csum_add(seed, csum_unfold(load16(bytes))))

\* A slip in the difference: the old value is not taken out.
bpf_csum_diff_new_only(from, to, seed) == csum_partial(to, seed)

\* bpf_csum_diff(from, 4, to, 4, seed): the sum of ~from and to
bpf_csum_diff(from, to, seed) ==
    csum_partial([i \in DOMAIN from |-> 255 - from[i]] \o to, seed)

\* csum_replace4(sum, from, to)
csum_replace4(check, from, to) ==
    store16(csum_fold(csum_add(csum_sub(csum_not(csum_unfold(load16(check))), from), to)))

\* csum_replace_by_diff(sum, diff)
csum_replace_by_diff(check, diff) ==
    store16(csum_fold(csum_add(diff, csum_not(csum_unfold(load16(check))))))

\* bpf_l4_csum_replace on a packet whose checksum is not left to the device:
\* by the size in flags, a difference (from must be 0) or a 2- or 4-byte
\* replacement; any other size is -EINVAL and the checksum stays.
l4_csum_replace(check, from, to, flags) ==
    IF flags % (BPF_F_HDR_FIELD_MASK + 1) = 0 /\ from = <<0, 0>>
    THEN csum_replace_by_diff(check, to)
    ELSE IF flags % (BPF_F_HDR_FIELD_MASK + 1) \in {2, 4} THEN csum_replace4(check, from, to)
    ELSE check

\* bpf_l3_csum_replace: the same on the IPv4 header checksum
l3_csum_replace(check, from, to, flags) ==
    IF flags % (BPF_F_HDR_FIELD_MASK + 1) = 0 /\ from = <<0, 0>>
    THEN csum_replace_by_diff(check, to)
    ELSE IF flags % (BPF_F_HDR_FIELD_MASK + 1) \in {2, 4} THEN csum_replace4(check, from, to)
    ELSE check

\* snat_v4_rewrite_headers: the address stored at addr_offset and the port
\* at port_offset, the TCP checksum moved for the port and for the address
\* in its pseudo-header, the IPv4 checksum moved for the address.  old_addr
\* and old_port are what the caller loaded from the same fields.
snat_v4_rewrite_headers(pkt, new_addr, addr_field, new_port, port_field) ==
    LET old_addr == pkt[addr_field]
        old_port == pkt[port_field]
        sum == bpf_csum_diff(old_addr, new_addr, <<0, 0>>)
        p1 == [pkt EXCEPT ![addr_field] = new_addr]
        p2 == [p1 EXCEPT !.tcp_check =
                  l4_csum_replace(@, csum_unfold(load16(old_port)),
                                  csum_unfold(load16(new_port)), 2)]
        p3 == [p2 EXCEPT ![port_field] = new_port]
        p4 == [p3 EXCEPT !.tcp_check = l4_csum_replace(@, <<0, 0>>, sum, BPF_F_PSEUDO_HDR)]
    IN [p4 EXCEPT !.check = l3_csum_replace(@, <<0, 0>>, sum, 0)]

NatKey(src_ip, dst_ip, src_port, dst_port) ==
    [src_ip |-> src_ip, dst_ip |-> dst_ip, src_port |-> src_port, dst_port |-> dst_port]

OriginValue(ip, port) == [ip |-> ip, dummy |-> 0, port |-> port]

\* HashMap::insert with flags 0 (BPF_ANY) on a hash map of max_entries
\* entries: an existing key is updated, a new key is refused when the map is
\* full.
MapCanInsert(map, key) ==
    key \in DOMAIN map \/ Cardinality(DOMAIN map) < SnatMaxEntries

\* A slip in the insert: an existing key keeps its value (BPF_NOEXIST-like).
MapInsertKeepsFirst(map, key, value) ==
    [k \in DOMAIN map \cup {key} |-> IF k \in DOMAIN map THEN map[k] ELSE value]

MapInsert(map, key, value) ==
    [k \in DOMAIN map \cup {key} |-> IF k = key THEN value ELSE map[k]]

EgressNatKey(nat_ip, dst_ip, nat_port, dst_port) ==
    NatKey(nat_ip, dst_ip, nat_port, dst_port)

handle_tcp_egress(pkt, map, rnd) ==
    IF ~CanLoad(pkt, EthHdrLEN + Ipv4HdrLEN, TcpHdrLEN) THEN Err(pkt, map)
    ELSE
    LET dst_ip == from_be32(pkt.dst_addr)
        dst_port == from_be16(pkt.dest)
        src_ip == from_be32(pkt.src_addr)
        src_port == from_be16(pkt.source)
    IN  IF CLUSTER_CIDR_KEY \notin DOMAIN NET_CONFIG_MAP THEN Err(pkt, map)
        ELSE IF is_ip_in_cidr(dst_ip, NET_CONFIG_MAP[CLUSTER_CIDR_KEY])
            THEN Ok(TC_ACT_PIPE, pkt, map)
        ELSE IF is_node_ip(src_ip) THEN Ok(TC_ACT_PIPE, pkt, map)
        ELSE IF HOST_IP_KEY \notin DOMAIN NET_CONFIG_MAP THEN Err(pkt, map)
        ELSE
        LET nat_ip == NET_CONFIG_MAP[HOST_IP_KEY].ip
            nat_port == snat_try_keep_port(SNAT_PORT_START, SNAT_PORT_END, src_port, rnd)
            out == snat_v4_rewrite_headers(pkt, to_be32(nat_ip), "src_addr",
                                           to_be16(nat_port), "source")
            nat_key == EgressNatKey(nat_ip, dst_ip, nat_port, dst_port)
            origin_value == OriginValue(src_ip, src_port)
        IN  IF ~MapCanInsert(map, nat_key) THEN Err(out, map)
            ELSE Ok(TC_ACT_PIPE, out, MapInsert(map, nat_key, origin_value))

try_tc_egress(pkt, map, rnd) ==
    IF ~CanLoad(pkt, 0, EthHdrLEN) THEN Err(pkt, map)
    ELSE IF pkt.ether_type # "Ipv4" THEN Ok(TC_ACT_PIPE, pkt, map)
    ELSE IF ~CanLoad(pkt, EthHdrLEN, Ipv4HdrLEN) THEN Err(pkt, map)
    ELSE IF pkt.proto # "Tcp" THEN Ok(TC_ACT_PIPE, pkt, map)
    ELSE handle_tcp_egress(pkt, map, rnd)

\* A slip in the reverse key: the ports are not swapped.
IngressNatKeyPortsKept(src_ip, src_port, dst_ip, dst_port) ==
    NatKey(dst_ip, src_ip, src_port, dst_port)

IngressNatKey(src_ip, src_port, dst_ip, dst_port) ==
    NatKey(dst_ip, src_ip, dst_port, src_port)

handle_tcp_ingress(pkt, map) ==
    IF ~CanLoad(pkt, EthHdrLEN + Ipv4HdrLEN, TcpHdrLEN) THEN Err(pkt, map)
    ELSE
    LET src_ip == from_be32(pkt.src_addr)
        src_port == from_be16(pkt.source)
        dst_ip == from_be32(pkt.dst_addr)
        dst_port == from_be16(pkt.dest)
        nat_key == IngressNatKey(src_ip, src_port, dst_ip, dst_port)
    IN  IF CLUSTER_CIDR_KEY \notin DOMAIN NET_CONFIG_MAP THEN Err(pkt, map)
        ELSE IF is_ip_in_cidr(src_ip, NET_CONFIG_MAP[CLUSTER_CIDR_KEY])
            THEN Ok(TC_ACT_PIPE, pkt, map)
        ELSE IF nat_key \notin DOMAIN map THEN Ok(TC_ACT_PIPE, pkt, map)
        ELSE
        LET origin_value == map[nat_key] IN
            IF origin_value.ip = dst_ip /\ origin_value.port = dst_port
                THEN Ok(TC_ACT_PIPE, pkt, map)
            ELSE Ok(TC_ACT_PIPE,
                    snat_v4_rewrite_headers(pkt, to_be32(origin_value.ip), "dst_addr",
                                            to_be16(origin_value.port), "dest"),
                    map)

try_tc_ingress(pkt, map) ==
    IF ~CanLoad(pkt, 0, EthHdrLEN) THEN Err(pkt, map)
    ELSE IF pkt.ether_type # "Ipv4" THEN Ok(TC_ACT_PIPE, pkt, map)
    ELSE IF ~CanLoad(pkt, EthHdrLEN, Ipv4HdrLEN) THEN Err(pkt, map)
    ELSE IF pkt.proto # "Tcp" THEN Ok(TC_ACT_PIPE, pkt, map)
    ELSE handle_tcp_ingress(pkt, map)

(***************************************************************************)
(* History kept for the properties (it does not influence the programs).   *)
(***************************************************************************)
Flow(pkt) ==
    [src_ip |-> from_be32(pkt.src_addr), src_port |-> from_be16(pkt.source),
     dst_ip |-> from_be32(pkt.dst_addr), dst_port |-> from_be16(pkt.dest)]

\* The 4-tuple of a packet as it leaves.
Tuple(pkt) ==
    NatKey(from_be32(pkt.src_addr), from_be32(pkt.dst_addr),
           from_be16(pkt.source), from_be16(pkt.dest))

NoPacket == [prog |-> "none"]
NoFlow == [src_ip |-> <<0, 0>>, src_port |-> 0, dst_ip |-> <<0, 0>>, dst_port |-> 0]

\* The history after a packet of origin (ip, port) was NATed to the 4-tuple
\* t.  over: some earlier packet NATed to t came from another origin.
Recorded(hist, t, ip, port) ==
    LET over == /\ t \in DOMAIN hist
                /\ (hist[t].over \/ hist[t].ip # ip \/ hist[t].port # port)
    IN  [k \in DOMAIN hist \cup {t} |->
            IF k = t THEN [ip |-> ip, port |-> port, over |-> over] ELSE hist[k]]

\* The packet went through the NAT: it was passed on, rewritten.
WasNatted(in, r) == r.ret = TC_ACT_PIPE /\ r.pkt # in

tc_egress_of(packets) ==
    \E pkt \in packets, rnd \in RandVals :
        LET r == try_tc_egress(pkt, SNAT_IPV4_MAP, rnd) IN
        /\ SNAT_IPV4_MAP' = r.map
        /\ last' = [prog |-> "egress", in |-> pkt, out |-> r.pkt, verdict |-> r.ret]
        /\ lastNatOf' =
              IF WasNatted(pkt, r)
              THEN Recorded(lastNatOf, Tuple(r.pkt),
                            from_be32(pkt.src_addr), from_be16(pkt.source))
              ELSE lastNatOf
        /\ \/ tracked' = tracked
           \/ tracked = NoFlow /\ WasNatted(pkt, r) /\ tracked' = Flow(pkt)
        /\ UNCHANGED <<NET_CONFIG_MAP, NODE_MAP>>
        /\ UNCHANGED natOthers

tc_ingress_of(packets) ==
    \E pkt \in packets :
        LET r == try_tc_ingress(pkt, SNAT_IPV4_MAP) IN
        /\ SNAT_IPV4_MAP' = r.map
        /\ last' = [prog |-> "ingress", in |-> pkt, out |-> r.pkt, verdict |-> r.ret]
        /\ UNCHANGED <<NET_CONFIG_MAP, NODE_MAP, lastNatOf, tracked>>
        /\ UNCHANGED natOthers

\* The classifiers on the packets of the NAT model
tc_egress == tc_egress_of(EgressPackets)
tc_ingress == tc_ingress_of(IngressPackets)

\* The classifiers on the packets chosen for their checksums
tc_egress_checksums == tc_egress_of(ChecksumEgressPackets)
tc_ingress_checksums == tc_ingress_of(ChecksumIngressPackets)

(***************************************************************************)
(* The netlink request engine: SocketHandle, its socket and the kernel.    *)
(*                                                                         *)
(* A message is its header fields and its payload bytes; errno is history: *)
(* the number the kernel put in the first 4 payload bytes of an ERROR or   *)
(* DONE message (0 in a data message).  A datagram is the sender's port id *)
(* and the messages parsed from it.                                        *)
(***************************************************************************)
PID_KERNEL == 0
NLMSG_ERROR == 2
NLMSG_DONE == 3
NLM_F_MULTI == 2
RTM_NEWLINK == 16
RTM_NEWADDR == 20
EEXIST == 17

\* The port id the kernel assigned to the socket (Socket::pid).
LocalPid == 4242
OtherPid == LocalPid + 1

\* Bounds of the model.
MaxRequests == 2     \* calls of request() on the handle
MaxQueue == 3        \* unread datagrams on the socket
MaxMsgs == 2         \* messages in a datagram that arrives while request() waits
MaxRecv == 2         \* such datagrams per call
MaxPasses == 2       \* runs of the overlay programmer on one host
MaxBoots == 3        \* starts of the agent on one host
MaxHttp == 3         \* requests the allocator's server accepts on one host
MaxStarts == 2       \* starts of the allocator's server on one host
MaxAdds == 3         \* add calls on one Message
MaxBufMsgs == 2      \* messages in one receive buffer
MaxNodes == 4        \* RouteAttr values of one attribute tree
MaxRouteCalls == 2   \* requests made on one route socket
MaxReconciles == 3   \* runs of the reconciler on one object
MaxHandleCalls == 3  \* requests made on one engine or handle

i32_to_ne_bytes(e) ==
    <<e % 256, (e \div 256) % 256, (e \div 65536) % 256, (e \div 16777216) % 256>>

i32_from_ne_bytes(b) ==
    b[1] + 256 * b[2] + 65536 * b[3]
      + 16777216 * (IF b[4] >= 128 THEN b[4] - 256 ELSE b[4])

Message(type, flags, s, p, payload, errno) ==
    [nlmsg_type |-> type, nlmsg_flags |-> flags, nlmsg_seq |-> s, nlmsg_pid |-> p,
     payload |-> payload, errno |-> errno]

DataMsg(type, flags, s, p) == Message(type, flags, s, p, <<type, flags, 0, 0>>, 0)
ErrorMsg(errno, s, p) ==
    Message(NLMSG_ERROR, 0, s, p, i32_to_ne_bytes(errno) \o <<16, s>>, errno)
DoneMsg(errno, s, p) ==
    Message(NLMSG_DONE, NLM_F_MULTI, s, p, i32_to_ne_bytes(errno), errno)

Datagram(from, msgs) == [from |-> from, msgs |-> msgs]

\* What the kernel queues in answer to the request with sequence number s
\* before request() reads: nothing yet, an acknowledgment, an error, the
\* answer to a GETLINK sent with the ACK flag (the link, then the
\* acknowledgment), a dump in two datagrams.
KernelReplies(s) ==
    { <<>>,
      << Datagram(PID_KERNEL, <<ErrorMsg(0, s, LocalPid)>>) >>,
      << Datagram(PID_KERNEL, <<ErrorMsg(-EEXIST, s, LocalPid)>>) >>,
      << Datagram(PID_KERNEL, <<DataMsg(RTM_NEWLINK, 0, s, LocalPid)>>),
         Datagram(PID_KERNEL, <<ErrorMsg(0, s, LocalPid)>>) >>,
      << Datagram(PID_KERNEL, <<DataMsg(RTM_NEWADDR, NLM_F_MULTI, s, LocalPid),
                                DataMsg(RTM_NEWADDR, NLM_F_MULTI, s, LocalPid)>>),
         Datagram(PID_KERNEL, <<DoneMsg(0, s, LocalPid)>>) >> }

\* The messages of a datagram that arrives while request() waits: answers to
\* the request in flight, and messages that are not (an earlier request's
\* sequence number, another port id).
ArrivingMsgs(s) ==
    { DataMsg(t, f, s, LocalPid) : t \in {RTM_NEWLINK, RTM_NEWADDR}, f \in {0, NLM_F_MULTI} }
    \cup { ErrorMsg(e, s, LocalPid) : e \in {0, -EEXIST} }
    \cup { DoneMsg(e, s, LocalPid) : e \in {0, -4} }   \* -4: an interrupted dump
    \cup { ErrorMsg(0, s - 1, LocalPid), ErrorMsg(-EEXIST, s, OtherPid),
           DataMsg(RTM_NEWLINK, 0, s, OtherPid) }

SeqsUpTo(S, n) == UNION { [1..k -> S] : k \in 1..n }

ArrivingDatagrams(s) ==
    { Datagram(PID_KERNEL, msgs) : msgs \in SeqsUpTo(ArrivingMsgs(s), MaxMsgs) }
    \cup { Datagram(OtherPid, <<DataMsg(RTM_NEWLINK, 0, s, LocalPid)>>) }

\* A slip in next_seq: the counter is returned without being advanced.
next_seq_stuck(s) == s

\* SocketHandle::next_seq (a u32; the model stays far below its wrap-around).
next_seq_of(s) == s + 1

\* A slip in Header::verify: the port id is not compared.
verify_header_seq_only(m, s, pid) == m.nlmsg_seq = s

\* Header::verify
verify_header(m, s, pid) == m.nlmsg_seq = s /\ m.nlmsg_pid = pid

\* A slip in check_last_message: the test of the MULTI flag is inverted.
check_last_message_inverted(m) == (m.nlmsg_flags \div NLM_F_MULTI) % 2 # 0

\* Message::check_last_message
check_last_message(m) == (m.nlmsg_flags \div NLM_F_MULTI) % 2 = 0

\* A slip in the match arm: NLMSG_DONE is left out of it.
is_error_only(type) == type = NLMSG_ERROR

\* The match arm NLMSG_DONE | NLMSG_ERROR
is_done_or_error(type) == type \in {NLMSG_DONE, NLMSG_ERROR}

\* The arm's guard: t if res_type != 0 && t != res_type
is_filtered(type, res_type) == res_type # 0 /\ type # res_type

\* A slip in the error: the errno bytes are kept in the trailing bytes.
kernel_error_whole_payload(err_no, payload) ==
    [errno |-> -err_no, trailing |-> payload]

\* The error built from an ERROR or DONE payload with a non-zero errno.
kernel_error(err_no, payload) ==
    [errno |-> -err_no, trailing |-> SubSeq(payload, 5, Len(payload))]

\* A slip in the sender check: every sender is accepted.
from_anyone(from) == TRUE

\* The datagram's sender is the kernel.
from_kernel(from) == from = PID_KERNEL

NoError == [errno |-> 0, trailing |-> <<>>]

\* The loop `for mut m in msgs` of request(), from message i on.  ctl tells
\* how it left: "next" (receive the next datagram), "done" (break 'done) or
\* "bail"; at is the message it left at; src lists the messages whose payload
\* it captured, beside res.
RECURSIVE for_msgs(_, _, _, _, _, _, _)
for_msgs(msgs, i, res, src, s, pid, res_type) ==
    IF i > Len(msgs)
    THEN [ctl |-> "next", res |-> res, src |-> src, at |-> 0, err |-> NoError]
    ELSE
    LET m == msgs[i] IN
    IF ~verify_header(m, s, pid)
        THEN for_msgs(msgs, i + 1, res, src, s, pid, res_type)
    ELSE IF is_done_or_error(m.nlmsg_type)
        THEN LET err_no == i32_from_ne_bytes(SubSeq(m.payload, 1, 4)) IN
             IF err_no = 0
             THEN [ctl |-> "done", res |-> res, src |-> src, at |-> i, err |-> NoError]
             ELSE [ctl |-> "bail", res |-> res, src |-> src, at |-> i,
                   err |-> kernel_error(err_no, m.payload)]
    ELSE IF is_filtered(m.nlmsg_type, res_type)
        THEN for_msgs(msgs, i + 1, res, src, s, pid, res_type)
    ELSE
        LET res2 == Append(res, m.payload)
            src2 == Append(src, m)
        IN  IF check_last_message(m)
            THEN [ctl |-> "done", res |-> res2, src |-> src2, at |-> i, err |-> NoError]
            ELSE for_msgs(msgs, i + 1, res2, src2, s, pid, res_type)

NoMsg == Message(0, 0, 0, 0, <<>>, 0)

\* The fields of call.  state: "idle" (no call yet), "recv" (request() waits
\* in recv), "ok" or "err" (it returned).  res is the Vec it builds and, once
\* state is "ok", returns.  The rest is history: src the messages res was
\* taken from, captured the payloads held when it returned, endedBy the
\* message it returned at, missed the answers of the expected type that
\* follow endedBy in the same datagram, skipped the messages passed over for
\* their header, lastFrom the sender of the datagram read last and lastMsg
\* the message that datagram ends with, stale the datagrams unread when the
\* request was sent, prev the outcome of the call before.
IdleCall ==
    [state |-> "idle", next_seq |-> 0, res_type |-> 0, res |-> <<>>, src |-> <<>>,
     captured |-> <<>>, kind |-> "none", err |-> NoError, endedBy |-> NoMsg,
     missed |-> 0, skipped |-> 0, nrecv |-> 0, lastFrom |-> PID_KERNEL, lastMsg |-> NoMsg,
     stale |-> 0, prev |-> "none"]

Outcome(c) == IF c.state = "err" THEN c.kind ELSE c.state

\* request(), up to its first recv: the message is stamped with the next
\* sequence number and sent, and the kernel queues its answer.
Request(res_type, replies) ==
    /\ call.state # "recv"
    /\ seq < MaxRequests
    /\ Len(rcvQueue) + Len(replies) <= MaxQueue
    /\ seq' = next_seq_of(seq)
    /\ sentLog' = Append(sentLog, seq')
    /\ rcvQueue' = rcvQueue \o replies
    /\ call' = [IdleCall EXCEPT !.state = "recv", !.next_seq = seq',
                                !.res_type = res_type, !.stale = Len(rcvQueue),
                                !.prev = Outcome(call)]

\* request() when send fails: the message is stamped, and the error returned.
RequestSendFails ==
    /\ call.state # "recv"
    /\ seq < MaxRequests
    /\ seq' = next_seq_of(seq)
    /\ sentLog' = Append(sentLog, seq')
    /\ call' = [IdleCall EXCEPT !.state = "err", !.kind = "io", !.next_seq = seq',
                                !.stale = Len(rcvQueue), !.prev = Outcome(call)]
    /\ UNCHANGED rcvQueue

\* One round of the loop 'done: a datagram is received and handled.
Handle(d) ==
    IF ~from_kernel(d.from)
    THEN [call EXCEPT !.state = "err", !.kind = "peer", !.res = <<>>,
                      !.captured = call.res, !.nrecv = @ + 1, !.lastFrom = d.from,
                      !.lastMsg = d.msgs[Len(d.msgs)]]
    ELSE
    LET r == for_msgs(d.msgs, 1, call.res, call.src, call.next_seq, LocalPid, call.res_type)
        upto == IF r.at = 0 THEN Len(d.msgs) ELSE r.at
        Mismatch(m) == m.nlmsg_seq # call.next_seq \/ m.nlmsg_pid # LocalPid
        Answer(m) ==
            /\ ~Mismatch(m)
            /\ m.nlmsg_type \notin {NLMSG_DONE, NLMSG_ERROR}
            /\ (call.res_type = 0 \/ m.nlmsg_type = call.res_type)
        c == [call EXCEPT !.nrecv = @ + 1, !.lastFrom = d.from, !.src = r.src,
                          !.lastMsg = d.msgs[Len(d.msgs)],
                          !.skipped = @ + Cardinality({ j \in 1..upto : Mismatch(d.msgs[j]) })]
    IN  CASE r.ctl = "next" -> [c EXCEPT !.res = r.res]
          [] r.ctl = "done" ->
                [c EXCEPT !.state = "ok", !.res = r.res, !.captured = r.res,
                          !.endedBy = d.msgs[r.at],
                          !.missed = Cardinality({ j \in (r.at + 1)..Len(d.msgs) :
                                                    Answer(d.msgs[j]) })]
          [] r.ctl = "bail" ->
                [c EXCEPT !.state = "err", !.kind = "kernel", !.res = <<>>,
                          !.captured = r.res, !.err = r.err, !.endedBy = d.msgs[r.at]]

\* recv returns the datagram at the head of the socket's queue.
Recv ==
    /\ call.state = "recv"
    /\ rcvQueue # <<>>
    /\ call' = Handle(Head(rcvQueue))
    /\ rcvQueue' = Tail(rcvQueue)
    /\ UNCHANGED <<seq, sentLog>>

\* The queue is empty: request() waits in recv until a datagram arrives.
RecvArriving ==
    /\ call.state = "recv"
    /\ rcvQueue = <<>>
    /\ call.nrecv < call.stale + MaxRecv
    /\ \E d \in ArrivingDatagrams(call.next_seq) : call' = Handle(d)
    /\ UNCHANGED <<seq, rcvQueue, sentLog>>

\* recv fails (the system call returns -1).
RecvFails ==
    /\ call.state = "recv"
    /\ call' = [call EXCEPT !.state = "err", !.kind = "io", !.res = <<>>,
                            !.captured = call.res]
    /\ UNCHANGED <<seq, rcvQueue, sentLog>>

(***************************************************************************)
(* The NAT port choice of handle_tcp_egress taken by itself: every source  *)
(* port around the bounds of the range, every random value around the      *)
(* multiples of the range's width.                                         *)
(***************************************************************************)
PortVals ==
    {0, 1, 4000, 29999, 30000, 30001, 45000, 59999, 60000, 60001, 65534, 65535}

PortRandVals ==
    { <<hi, lo>> : hi \in {0, 7, 65535},
                   lo \in {0, 1, 29999, 30000, 30001, 59999, 60000, 60001, 65535} }

NoPort == [called |-> FALSE, val |-> 0, rnd |-> <<0, 0>>, out |-> 0]

\* let nat_port = snat_try_keep_port(30000_u16, 60000_u16, src_port);
nat_port ==
    \E val \in PortVals, rnd \in PortRandVals :
        /\ natPort' = [called |-> TRUE, val |-> val, rnd |-> rnd,
                       out |-> snat_try_keep_port(SNAT_PORT_START, SNAT_PORT_END, val, rnd)]
        /\ UNCHANGED portOthers

(***************************************************************************)
(* The host's datapath as the programs see it through rtnetlink, and the   *)
(* calls of rsln::netlink::Netlink on it.                                  *)
(*                                                                         *)
(* Every call takes the kernel state k and returns the state after it, the *)
(* errno of its reply (0: acknowledged) and a value.  fail: the kernel     *)
(* refuses this call for a reason of its own (errno 1, EPERM).             *)
(***************************************************************************)
OkRes(k, val) == [k |-> k, err |-> 0, val |-> val]
ErrRes(k, errno) == [k |-> k, err |-> errno, val |-> 0]

\* std::io::Error::from_raw_os_error(errno) as the text the error starts with.
err_msg(errno) ==
    CASE errno = EEXIST -> "File exists"
      [] errno = 1 -> "Operation not permitted"
      [] errno = 19 -> "No such device"
      [] OTHER -> "Unknown error"

\* A slip in the test: no error is taken for "already there".
contains_nothing(errno) == FALSE

\* e.to_string().contains("File exists")
contains_file_exists(errno) == err_msg(errno) = "File exists"

\* The interface index the kernel gives the next new link.
NextIndex(k) ==
    LET used == { k.links[n].index : n \in DOMAIN k.links } IN
    CHOOSE i \in 1..(Cardinality(used) + 1) : i \notin used

\* RTM_GETLINK by name.
link_get(k, name, fail) ==
    IF fail THEN ErrRes(k, 1)
    ELSE IF name \in DOMAIN k.links THEN OkRes(k, k.links[name].index)
    ELSE ErrRes(k, 19)

\* RTM_NEWLINK with NLM_F_CREATE | NLM_F_EXCL | NLM_F_ACK.
link_add(k, name, hw_addr, fail) ==
    IF fail THEN ErrRes(k, 1)
    ELSE IF name \in DOMAIN k.links THEN ErrRes(k, EEXIST)
    ELSE OkRes([k EXCEPT !.links =
                    (name :> [index |-> NextIndex(k), hw_addr |-> hw_addr]) @@ @], 0)

\* RTM_NEWLINK setting IFF_UP on the link of that index.
link_up(k, index, fail) ==
    IF fail THEN ErrRes(k, 1)
    ELSE IF \E n \in DOMAIN k.links : k.links[n].index = index
        THEN OkRes([k EXCEPT !.up = @ \cup {index}], 0)
    ELSE ErrRes(k, 19)

\* The sysctl writes of enable_forwarding for the interface of that name.
set_forwarding(k, name, fail) ==
    IF fail \/ name \notin DOMAIN k.links THEN ErrRes(k, 1)
    ELSE OkRes([k EXCEPT !.forwarding = @ \cup {name}], 0)

\* RTM_NEWADDR with NLM_F_CREATE | NLM_F_EXCL | NLM_F_ACK.
addr_add(k, index, addr, fail) ==
    IF fail THEN ErrRes(k, 1)
    ELSE IF <<index, addr>> \in k.addrs THEN ErrRes(k, EEXIST)
    ELSE OkRes([k EXCEPT !.addrs = @ \cup {<<index, addr>>}], 0)

\* RTM_NEWROUTE with NLM_F_CREATE | NLM_F_EXCL | NLM_F_ACK.
route_add(k, route, fail) ==
    IF fail THEN ErrRes(k, 1)
    ELSE IF route.dst \in DOMAIN k.routes THEN ErrRes(k, EEXIST)
    ELSE OkRes([k EXCEPT !.routes = (route.dst :> route) @@ @], 0)

\* RTM_NEWNEIGH with NLM_F_CREATE | NLM_F_REPLACE | NLM_F_ACK.
neigh_set(k, neigh, fail) ==
    IF fail THEN ErrRes(k, 1)
    ELSE LET key == <<neigh.family, neigh.link_index, neigh.ip_addr>> IN
         OkRes([k EXCEPT !.neighs = (key :> neigh.mac_addr) @@ @], 0)

\* link_up, then the sysctl writes.
enable_forwarding(k, name, index, fault) ==
    LET u == link_up(k, index, fault = <<name, "link_up">>) IN
    IF u.err # 0 THEN u
    ELSE LET c == set_forwarding(u.k, name, fault = <<name, "sysctl">>) IN
         IF c.err # 0 THEN c ELSE OkRes(c.k, index)

\* link_get, and on any error link_add and link_get again; then
\* enable_forwarding.  The value is the link's index.
ensure_link(k, name, hw_addr, fault) ==
    LET g == link_get(k, name, fault = <<name, "link_get">>) IN
    IF g.err = 0 THEN enable_forwarding(g.k, name, g.val, fault)
    ELSE LET a == link_add(g.k, name, hw_addr, fault = <<name, "link_add">>) IN
         IF a.err # 0 THEN a
         ELSE LET g2 == link_get(a.k, name, FALSE) IN
              IF g2.err # 0 THEN g2
              ELSE enable_forwarding(g2.k, name, g2.val, fault)

(***************************************************************************)
(* The overlay programmer of src/agent/src/netlink.rs, built by            *)
(* Netlink::init(host_ip, pod_cidr, node_routes).                          *)
(***************************************************************************)
IpNet(addr, prefix_len) == [addr |-> addr, prefix_len |-> prefix_len]

\* The netmask of a prefix length that is a multiple of 8.
Netmask(prefix_len) ==
    CASE prefix_len = 16 -> <<65535, 0>>
      [] prefix_len = 24 -> <<65535, 65280>>
      [] prefix_len = 32 -> <<65535, 65535>>

network(ip_net) == And32(ip_net.addr, Netmask(ip_net.prefix_len))

\* u32 + 1
Inc32(v) == IF v[2] = 65535 THEN <<(v[1] + 1) % 65536, 0>> ELSE <<v[1], v[2] + 1>>

\* get_ip_addr: the first address of the network.
get_ip_addr(ip_net) == Inc32(network(ip_net))

NodeRoute(ip, pod_cidr) == [ip |-> ip, pod_cidr |-> pod_cidr]

\* The nodes of the cluster: this host and two peers.
node_routes ==
    << NodeRoute(HostIp, IpNet(Ip(10, 244, 0, 0), 24)),
       NodeRoute(PeerNodeIp, IpNet(Ip(10, 244, 1, 0), 24)),
       NodeRoute(Ip(10, 0, 0, 3), IpNet(Ip(10, 244, 2, 0), 24)) >>

host_ip == HostIp
pod_cidr == node_routes[1].pod_cidr

\* generate_mac(): the addresses it draws here.
GeneratedMacs == {"02:aa", "02:bb"}

\* The address of the vxlan device of the agent on that node, as
\* get_vxlan_mac_address reads it.
PeerVxlanMac(node_ip) == <<"mac of", node_ip>>

NoFault == <<"none", "none">>

BridgeFaults ==
    { <<"cni0", op>> : op \in {"link_get", "link_add", "link_up", "sysctl", "addr_add"} }

VxlanFaults ==
    { <<"eth0", op>> : op \in {"link_get", "link_up"} }
    \cup { <<"sinabro_vxlan", op>> : op \in {"link_get", "link_add", "addr_add"} }

\* if let Err(e) = ... { if e.to_string().contains("File exists") { info!(..) }
\* else { return Err(e) } }: the error the caller goes on with, 0 for none.
unless_exists(errno) == IF errno # 0 /\ ~contains_file_exists(errno) THEN errno ELSE 0

setup_bridge(k, fault) ==
    LET ip_addr == get_ip_addr(pod_cidr)
        bridge == ensure_link(k, "cni0", "", fault)
    IN  IF bridge.err # 0 THEN bridge
        ELSE LET address == IpNet(ip_addr, pod_cidr.prefix_len)
                 a == addr_add(bridge.k, bridge.val, address, fault = <<"cni0", "addr_add">>)
             IN  IF unless_exists(a.err) # 0 THEN ErrRes(a.k, a.err)
                 ELSE OkRes(a.k, bridge.val)

setup_vxlan(k, vxlan_mac, fault) ==
    LET eth0 == link_get(k, "eth0", fault = <<"eth0", "link_get">>) IN
    IF eth0.err # 0 THEN eth0
    ELSE
    LET up == link_up(eth0.k, eth0.val, fault = <<"eth0", "link_up">>) IN
    IF up.err # 0 THEN up
    ELSE
    LET vxlan == ensure_link(up.k, "sinabro_vxlan", vxlan_mac, fault) IN
    IF vxlan.err # 0 THEN vxlan
    ELSE
    LET vxlan_addr == IpNet(pod_cidr.addr, 32)
        a == addr_add(vxlan.k, vxlan.val, vxlan_addr, fault = <<"sinabro_vxlan", "addr_add">>)
    IN  IF unless_exists(a.err) # 0 THEN ErrRes(a.k, a.err)
        ELSE OkRes(a.k, vxlan.val)

\* node_routes.iter().filter(|node_route| node_route.ip != host_ip)
overlay_peers ==
    { node_routes[i].ip : i \in { j \in DOMAIN node_routes : node_routes[j].ip # host_ip } }

PodCidrOf(node_ip) ==
    LET i == CHOOSE j \in DOMAIN node_routes : node_routes[j].ip = node_ip IN
    node_routes[i].pod_cidr

Routing(oif_index, dst, via) == [oif_index |-> oif_index, dst |-> dst, via |-> via]

Neighbor(family, link_index, ip_addr, mac_addr) ==
    [family |-> family, link_index |-> link_index, ip_addr |-> ip_addr, mac_addr |-> mac_addr]

\* A peer task as tokio::spawn leaves it: before its first netlink call.
\* sock: the socket of the Netlink it made (0: none yet); faulted: a call of
\* this task was refused; vxlan_mac: the peer's vxlan address once the task
\* has it; wrote (history): what the task has brought about so far.
NoMac == <<>>

SpawnedTask ==
    [pc |-> "route", err |-> 0, sock |-> 0, faulted |-> FALSE, vxlan_mac |-> NoMac,
     wrote |-> <<>>]

\* A slip in the task: an error is logged and the task goes on.
task_error_goes_on(tasks, node_ip, errno) == tasks

\* A slip in the spawning: an error in one task ends the tasks still running.
task_error_ends_all(tasks, node_ip, errno) ==
    [p \in DOMAIN tasks |->
        IF p = node_ip \/ tasks[p].pc \notin {"done", "failed"}
        THEN [tasks[p] EXCEPT !.pc = "failed", !.err = errno]
        ELSE tasks[p]]

\* return Err(e) in the future that tokio::spawn runs: that task ends.
task_error(tasks, node_ip, errno) ==
    [tasks EXCEPT ![node_ip].pc = "failed", ![node_ip].err = errno]

NoTasks == <<>>

\* The programmer before a pass.  prev_ok: the pass before this one ran to
\* the end without error, peer tasks included, and after is the kernel state
\* it left; clean: no call of this pass was refused for a reason of the
\* kernel's own; socks: the netlink sockets opened so far.
FreshProg ==
    [pc |-> "bridge", pass |-> 1, vxlan_index |-> 0, err |-> 0, tasks |-> NoTasks,
     sock |-> 0, socks |-> 0, prev_ok |-> FALSE, after |-> "none", clean |-> TRUE]

TasksEnded == \A p \in DOMAIN prog.tasks : prog.tasks[p].pc \in {"done", "failed"}

SetupBridge ==
    /\ prog.pc = "bridge"
    /\ \E fault \in BridgeFaults \cup {NoFault} :
        LET r == setup_bridge(kernel, fault) IN
        /\ kernel' = r.k
        /\ prog' = [prog EXCEPT !.pc = IF r.err = 0 THEN "vxlan" ELSE "failed",
                                !.err = r.err,
                                !.sock = prog.socks + 1, !.socks = @ + 1,
                                !.clean = @ /\ fault = NoFault]
    /\ UNCHANGED agent

SetupVxlan ==
    /\ prog.pc = "vxlan"
    /\ \E fault \in VxlanFaults \cup {NoFault}, vxlan_mac \in GeneratedMacs :
        LET r == setup_vxlan(kernel, vxlan_mac, fault) IN
        /\ kernel' = r.k
        /\ prog' = [prog EXCEPT !.pc = IF r.err = 0 THEN "overlay" ELSE "failed",
                                !.err = r.err, !.vxlan_index = r.val,
                                !.clean = @ /\ fault = NoFault]
    /\ UNCHANGED agent

\* One detached task per peer; the call itself returns Ok(()).
InitializeOverlay ==
    /\ prog.pc = "overlay"
    /\ prog' = [prog EXCEPT !.pc = "tasks",
                            !.tasks = [p \in overlay_peers |-> SpawnedTask]]
    /\ UNCHANGED <<kernel, agent>>

\* setup_route_and_neighbors up to the route: Netlink::new(), Context::new
\* (ctx_ok: the cluster API answered), route_add.
TaskRoute(node_ip) ==
    /\ prog.pc = "tasks"
    /\ prog.tasks[node_ip].pc = "route"
    /\ \E ctx_ok \in BOOLEAN, fail \in BOOLEAN :
        LET cidr == PodCidrOf(node_ip)
            route == Routing(prog.vxlan_index, cidr, cidr.addr)
            r == IF ctx_ok THEN route_add(kernel, route, fail) ELSE ErrRes(kernel, -1)
            e == unless_exists(r.err)
            t == [prog.tasks EXCEPT ![node_ip].sock = prog.socks + 1,
                                    ![node_ip].faulted = ~ctx_ok \/ fail,
                                    ![node_ip].pc = "neigh",
                                    ![node_ip].wrote =
                                        IF e = 0 THEN Append(@, "route") ELSE @]
        IN  /\ ctx_ok \/ ~fail
            /\ kernel' = r.k
            /\ prog' = [prog EXCEPT !.socks = @ + 1,
                                    !.clean = @ /\ ctx_ok /\ ~fail,
                                    !.tasks = IF e # 0 THEN task_error(t, node_ip, e) ELSE t]
    /\ UNCHANGED agent

\* get_vxlan_mac_address (mac_ok: the peer's agent answered), then the ARP
\* entry of the peer's pod network.
TaskNeigh(node_ip) ==
    /\ prog.pc = "tasks"
    /\ prog.tasks[node_ip].pc = "neigh"
    /\ \E mac_ok \in BOOLEAN, fail \in BOOLEAN :
        LET vxlan_mac == IF mac_ok THEN PeerVxlanMac(node_ip) ELSE NoMac
            neigh == Neighbor("AF_INET", prog.vxlan_index, network(PodCidrOf(node_ip)),
                              vxlan_mac)
            r == IF mac_ok THEN neigh_set(kernel, neigh, fail) ELSE ErrRes(kernel, -1)
            e == unless_exists(r.err)
            t == [prog.tasks EXCEPT ![node_ip].faulted = ~mac_ok \/ fail,
                                    ![node_ip].pc = "fdb",
                                    ![node_ip].vxlan_mac = vxlan_mac,
                                    ![node_ip].wrote =
                                        @ \o (IF mac_ok THEN <<"mac">> ELSE <<>>)
                                          \o (IF e = 0 THEN <<"arp">> ELSE <<>>)]
        IN  /\ mac_ok \/ ~fail
            /\ kernel' = r.k
            /\ prog' = [prog EXCEPT !.clean = @ /\ mac_ok /\ ~fail,
                                    !.tasks = IF e # 0 THEN task_error(t, node_ip, e) ELSE t]
    /\ UNCHANGED agent

\* The FDB entry of the peer's address; then the task is done.
TaskFdb(node_ip) ==
    /\ prog.pc = "tasks"
    /\ prog.tasks[node_ip].pc = "fdb"
    /\ \E fail \in BOOLEAN :
        LET fdb == Neighbor("AF_BRIDGE", prog.vxlan_index, node_ip,
                            prog.tasks[node_ip].vxlan_mac)
            r == neigh_set(kernel, fdb, fail)
            e == unless_exists(r.err)
            t == [prog.tasks EXCEPT ![node_ip].faulted = fail, ![node_ip].pc = "done",
                                    ![node_ip].wrote =
                                        IF e = 0 THEN Append(@, "fdb") ELSE @]
        IN  /\ kernel' = r.k
            /\ prog' = [prog EXCEPT !.clean = @ /\ ~fail,
                                    !.tasks = IF e # 0 THEN task_error(t, node_ip, e) ELSE t]
    /\ UNCHANGED agent

\* The programmer is built and run again once a pass is over, on the kernel
\* state that pass left.
Rerun ==
    /\ prog.pass < MaxPasses
    /\ \/ prog.pc = "failed"
       \/ prog.pc = "tasks" /\ TasksEnded
    /\ LET ok == /\ prog.pc = "tasks"
                 /\ \A p \in DOMAIN prog.tasks : prog.tasks[p].pc = "done"
       IN  prog' = [FreshProg EXCEPT !.pass = prog.pass + 1, !.socks = prog.socks,
                                     !.prev_ok = ok,
                                     !.after = IF ok THEN kernel ELSE "none"]
    /\ UNCHANGED <<kernel, agent>>

(***************************************************************************)
(* The agent's bootstrap: main of src/agent/src/main.rs from the bridge to *)
(* the call of BpfLoader::load.                                            *)
(***************************************************************************)
\* format!("{:?}", bridge_ip): the octets and the prefix length, as text.
fmt_ipnet(n) ==
    <<n.addr[1] \div 256, n.addr[1] % 256, n.addr[2] \div 256, n.addr[2] % 256,
      n.prefix_len>>

\* bridge_ip.as_str().parse::<IpNet>()
parse_ipnet(t) == IpNet(<<t[1] * 256 + t[2], t[3] * 256 + t[4]>>, t[5])

\* The place of a peer in node_routes, as a label.
PeerLabel == <<"1", "2", "3">>

RouteFaults ==
    { <<"route_add", PeerLabel[i]>> :
        i \in { j \in DOMAIN node_routes : node_routes[j].ip # host_ip } }

\* The calls of main that add an address or a route.
AddOps == {<<"cni0", "addr_add">>, <<"sinabro_vxlan", "addr_add">>} \cup RouteFaults

MainFaults ==
    BridgeFaults \cup VxlanFaults \cup RouteFaults \cup {<<"config", "write">>}

\* What main has come to: the kernel state, the error it returns (0: none)
\* and the call the error came from.
MainRes(k, err, at) == [k |-> k, err |-> err, at |-> at]

\* node_routes.iter().filter(..).try_for_each(..): the route of every peer,
\* in order, stopping at the first error other than "File exists".
RECURSIVE add_peer_routes(_, _, _, _)
add_peer_routes(k, i, oif_index, fault) ==
    IF i > Len(node_routes) THEN MainRes(k, 0, NoFault)
    ELSE IF node_routes[i].ip = host_ip THEN add_peer_routes(k, i + 1, oif_index, fault)
    ELSE
    LET at == <<"route_add", PeerLabel[i]>>
        cidr == node_routes[i].pod_cidr
        r == route_add(k, Routing(oif_index, cidr, cidr.addr), fault = at)
    IN  IF unless_exists(r.err) # 0 THEN MainRes(r.k, r.err, at)
        ELSE add_peer_routes(r.k, i + 1, oif_index, fault)

main(k, vxlan_mac, fault) ==
    LET bridge_ip == fmt_ipnet(IpNet(get_ip_addr(pod_cidr), pod_cidr.prefix_len))
        bridge == ensure_link(k, "cni0", "", fault)
    IN
    IF bridge.err # 0 THEN MainRes(bridge.k, bridge.err, <<"cni0", "ensure_link">>)
    ELSE
    LET a == addr_add(bridge.k, bridge.val, parse_ipnet(bridge_ip),
                      fault = <<"cni0", "addr_add">>) IN
    IF unless_exists(a.err) # 0 THEN MainRes(a.k, a.err, <<"cni0", "addr_add">>)
    ELSE
    LET eth0 == link_get(a.k, "eth0", fault = <<"eth0", "link_get">>) IN
    IF eth0.err # 0 THEN MainRes(eth0.k, eth0.err, <<"eth0", "link_get">>)
    ELSE
    LET up == link_up(eth0.k, eth0.val, fault = <<"eth0", "link_up">>) IN
    IF up.err # 0 THEN MainRes(up.k, up.err, <<"eth0", "link_up">>)
    ELSE
    LET vxlan == ensure_link(up.k, "sinabro_vxlan", vxlan_mac, fault) IN
    IF vxlan.err # 0 THEN MainRes(vxlan.k, vxlan.err, <<"sinabro_vxlan", "ensure_link">>)
    ELSE
    \* netlink.addr_add(&vxlan, &vxlan_addr)?;
    LET va == addr_add(vxlan.k, vxlan.val, IpNet(pod_cidr.addr, 32),
                       fault = <<"sinabro_vxlan", "addr_add">>) IN
    IF va.err # 0 THEN MainRes(va.k, va.err, <<"sinabro_vxlan", "addr_add">>)
    ELSE
    LET routes == add_peer_routes(va.k, 1, vxlan.val, fault) IN
    IF routes.err # 0 THEN routes
    ELSE IF fault = <<"config", "write">> THEN MainRes(routes.k, -1, fault)
    ELSE MainRes(routes.k, 0, NoFault)

\* The agent before its first start.  programmed: an earlier start on this
\* host got as far as loading the program.
FreshAgent ==
    [pc |-> "start", boots |-> 1, err |-> 0, at |-> NoFault, fault |-> NoFault,
     programmed |-> FALSE]

\* main runs until it returns an error or calls bpf_loader.load ("load").
Main ==
    /\ agent.pc = "start"
    /\ \E fault \in MainFaults \cup {NoFault}, vxlan_mac \in GeneratedMacs :
        LET r == main(kernel, vxlan_mac, fault) IN
        /\ kernel' = r.k
        /\ agent' = [agent EXCEPT !.pc = IF r.err = 0 THEN "load" ELSE "failed",
                                  !.err = r.err, !.at = r.at, !.fault = fault]
    /\ UNCHANGED prog

\* The agent is started again on the same host.
Restart ==
    /\ agent.pc \in {"load", "failed"}
    /\ agent.boots < MaxBoots
    /\ agent' = [FreshAgent EXCEPT !.boots = agent.boots + 1,
                                   !.programmed = agent.programmed \/ agent.pc = "load"]
    /\ UNCHANGED <<kernel, prog>>

(***************************************************************************)
(* The address allocator (src/agent/src/server/ipam.rs) and its HTTP       *)
(* server (src/agent/src/server/api_server.rs).                            *)
(*                                                                         *)
(* An IpAddr is the tuple of its four octets (IPv4 only: no text of the    *)
(* model parses as IPv6).  A String is the sequence of its characters,     *)
(* each a one-character string.                                            *)
(***************************************************************************)
Digit == <<"0", "1", "2", "3", "4", "5", "6", "7", "8", "9">>

IsDigit(c) == \E i \in 1..10 : Digit[i] = c

DigitVal(c) == (CHOOSE i \in 1..10 : Digit[i] = c) - 1

\* The decimal text of an octet, as Display for u8 writes it.
u8_to_string(n) ==
    IF n < 10 THEN <<Digit[n + 1]>>
    ELSE IF n < 100 THEN <<Digit[(n \div 10) + 1], Digit[(n % 10) + 1]>>
    ELSE <<Digit[(n \div 100) + 1], Digit[((n \div 10) % 10) + 1], Digit[(n % 10) + 1]>>

\* ip.to_string(): the dotted quad.
to_string(ip) ==
    u8_to_string(ip[1]) \o <<".">> \o u8_to_string(ip[2]) \o <<".">>
        \o u8_to_string(ip[3]) \o <<".">> \o u8_to_string(ip[4])

\* The pieces of s between the occurrences of sep (str::split).
RECURSIVE split(_, _)
split(s, sep) ==
    IF \A i \in 1..Len(s) : s[i] # sep THEN <<s>>
    ELSE LET i == CHOOSE i \in 1..Len(s) :
                      s[i] = sep /\ \A j \in 1..(i - 1) : s[j] # sep
         IN <<SubSeq(s, 1, i - 1)>> \o split(SubSeq(s, i + 1, Len(s)), sep)

\* One to three decimal digits without a leading zero, at most max;
\* -1 when the text is not such a number.
parse_number(t, max) ==
    IF /\ Len(t) \in 1..3
       /\ \A i \in 1..Len(t) : IsDigit(t[i])
       /\ Len(t) > 1 => t[1] # "0"
    THEN LET v == CASE Len(t) = 1 -> DigitVal(t[1])
                    [] Len(t) = 2 -> 10 * DigitVal(t[1]) + DigitVal(t[2])
                    [] Len(t) = 3 -> 100 * DigitVal(t[1]) + 10 * DigitVal(t[2])
                                        + DigitVal(t[3])
         IN IF v <= max THEN v ELSE -1
    ELSE -1

ParseError == [ok |-> FALSE, ip |-> <<0, 0, 0, 0>>]

\* ip.parse::<IpAddr>(): four octets separated by dots, or an error.
parse_IpAddr(t) ==
    LET parts == split(t, ".") IN
    IF Len(parts) = 4 /\ \A i \in 1..4 : parse_number(parts[i], 255) >= 0
    THEN [ok |-> TRUE, ip |-> [i \in 1..4 |-> parse_number(parts[i], 255)]]
    ELSE ParseError

\* The order of IpAddr, by which the BTreeSet keeps its elements.
ip_lt(a, b) ==
    \E i \in 1..4 : a[i] < b[i] /\ \A j \in 1..(i - 1) : a[j] = b[j]

\* The first element of a non-empty BTreeSet.
first(set) == CHOOSE a \in set : \A b \in set : a = b \/ ip_lt(a, b)

\* The elements of a BTreeSet in the order iter() yields them.
RECURSIVE iter(_)
iter(set) == IF set = {} THEN <<>> ELSE <<first(set)>> \o iter(set \ {first(set)})

\* texts.join("\n")
RECURSIVE join(_)
join(texts) ==
    IF texts = <<>> THEN <<>>
    ELSE IF Len(texts) = 1 THEN texts[1]
    ELSE texts[1] \o <<"\n">> \o join(Tail(texts))

\* data.lines(): the pieces between line feeds, without a final empty one.
lines(data) ==
    LET pieces == split(data, "\n") IN
    IF pieces[Len(pieces)] = <<>> THEN SubSeq(pieces, 1, Len(pieces) - 1) ELSE pieces

\* 2^n for the host bits of a prefix of 24 bits or more.
HostSpan(prefix_len) ==
    CASE prefix_len = 32 -> 1 [] prefix_len = 31 -> 2 [] prefix_len = 30 -> 4
      [] prefix_len = 29 -> 8 [] prefix_len = 28 -> 16 [] prefix_len = 27 -> 32
      [] prefix_len = 26 -> 64 [] prefix_len = 25 -> 128 [] prefix_len = 24 -> 256

\* subnet.hosts() of a subnet with a prefix of 24 bits or more: every
\* address of the subnet but its network and broadcast address (all of them
\* for a prefix of 31 or 32 bits).
hosts(addr, prefix_len) ==
    LET span == HostSpan(prefix_len)
        low == addr[4] - (addr[4] % span)
        all == { <<addr[1], addr[2], addr[3], d>> : d \in low..(low + span - 1) }
    IN IF prefix_len >= 31 THEN all
       ELSE all \ {<<addr[1], addr[2], addr[3], low>>,
                   <<addr[1], addr[2], addr[3], low + span - 1>>}

\* pod_cidr.parse::<IpNet>().map(|subnet| subnet.hosts().skip(1).collect())
\*     .unwrap_or_else(|_| BTreeSet::new())
hosts_of(cidr) ==
    LET parts == split(cidr, "/")
        ok == /\ Len(parts) = 2
              /\ parse_IpAddr(parts[1]).ok
              /\ parse_number(parts[2], 32) >= 24
        all == hosts(parse_IpAddr(parts[1]).ip, parse_number(parts[2], 32))
    IN IF ~ok \/ all = {} THEN {} ELSE all \ {first(all)}

NoStoreFile == [exists |-> FALSE, data |-> <<>>]

\* Ipam::load that drops the first line of the store file.
load_skips_first_line(file) ==
    IF file.exists
    THEN [some |-> TRUE,
          set |-> { parse_IpAddr(lines(file.data)[i]).ip : i \in 2..Len(lines(file.data)) }]
    ELSE [some |-> FALSE, set |-> {}]

\* Ipam::load: None when the store file is absent.
load(file) ==
    IF file.exists
    THEN [some |-> TRUE,
          set |-> { parse_IpAddr(lines(file.data)[i]).ip : i \in 1..Len(lines(file.data)) }]
    ELSE [some |-> FALSE, set |-> {}]

\* Ipam::new: ip_store is the free set and the poison flag of its mutex.
Ipam_new(cidr, file) ==
    [set |-> IF load(file).some THEN load(file).set ELSE hosts_of(cidr),
     poisoned |-> FALSE]

\* What a call leaves: the store, whether it panicked, and what it returned.
IpamRes(store, panicked, body) == [store |-> store, panicked |-> panicked, body |-> body]

\* Ipam::pop_first, with the unwrap_or_default of the handler: lock().unwrap()
\* panics on a poisoned mutex; an empty set gives None, the empty string.
pop_first_keeps(store) ==
    IF store.poisoned THEN IpamRes(store, TRUE, <<>>)
    ELSE IF store.set = {} THEN IpamRes(store, FALSE, <<>>)
    ELSE IpamRes(store, FALSE, to_string(first(store.set)))

pop_first(store) ==
    IF store.poisoned THEN IpamRes(store, TRUE, <<>>)
    ELSE IF store.set = {} THEN IpamRes(store, FALSE, <<>>)
    ELSE IpamRes([store EXCEPT !.set = @ \ {first(store.set)}], FALSE,
                 to_string(first(store.set)))

\* Ipam::insert: the guard of the mutex is taken before the argument
\* ip.parse().unwrap() is evaluated, so a text that does not parse panics
\* with the guard held, and the guard's drop poisons the mutex.
insert(store, ip) ==
    IF store.poisoned THEN IpamRes(store, TRUE, <<>>)
    ELSE IF ~parse_IpAddr(ip).ok THEN IpamRes([store EXCEPT !.poisoned = TRUE], TRUE, <<>>)
    ELSE IpamRes([store EXCEPT !.set = @ \cup {parse_IpAddr(ip).ip}], FALSE, <<>>)

\* Ipam::flush: the elements in order, one per line, written over the file.
flush(store, file) ==
    IF store.poisoned THEN [file |-> file, panicked |-> TRUE]
    ELSE [file |-> [exists |-> TRUE,
                    data |-> join([i \in 1..Cardinality(store.set) |->
                                       to_string(iter(store.set)[i])])],
          panicked |-> FALSE]

\* The text of an address or of a subnet, written out.
Text(ip) == to_string(ip)

\* The pod CIDRs the server is started with.
StartCidrs == { Text(<<10, 244, 0, 0>>) \o <<"/", "3", "0">>,
                Text(<<10, 244, 0, 0>>) \o <<"/", "2", "9">> }

\* The {ip} segments of the PUT requests: two addresses, and a text that is
\* no address.
PutPaths == { Text(<<10, 244, 0, 2>>), Text(<<10, 244, 0, 1>>),
              <<"1", "0", ".", "2", "4", "4", ".", "0", ".", "2", "5", "6">> }

\* GET /ipam/ip and PUT /ipam/ip/{ip}
HttpRequests ==
    {[method |-> "GET", ip |-> <<>>]} \cup { [method |-> "PUT", ip |-> p] : p \in PutPaths }

\* Before start is called for the first time.
DownServer ==
    [pc |-> "down", starts |-> 0, pod_cidr |-> <<>>, accepted |-> 0, at_signal |-> 0,
     wrote |-> FALSE, flushed |-> {}]

\* Every connection has finished its request, with a response or a panic.
Drained(reqs) == \A i \in DOMAIN reqs : reqs[i].state # "inflight"

\* api_server::start up to axum::serve: the allocator is built from the store
\* file or the pod CIDR, and the listener is bound.
Start ==
    /\ server.pc \in {"down", "stopped", "panicked"}
    /\ server.starts < MaxStarts
    /\ \E cidr \in (IF server.starts = 0 THEN StartCidrs ELSE {server.pod_cidr}) :
        /\ ip_store' = Ipam_new(cidr, store_file)
        /\ server' = [server EXCEPT !.pc = "serving", !.starts = @ + 1, !.pod_cidr = cidr]
    /\ requests' = <<>>
    /\ served' = <<>>
    /\ UNCHANGED store_file

\* The listener accepts a connection and its request is routed to a handler.
Accept ==
    /\ server.pc = "serving"
    /\ server.accepted < MaxHttp
    /\ \E req \in HttpRequests :
        requests' = Append(requests, [method |-> req.method, ip |-> req.ip,
                                      state |-> "inflight", status |-> 0, body |-> <<>>])
    /\ server' = [server EXCEPT !.accepted = @ + 1]
    /\ UNCHANGED <<ip_store, store_file, served>>

\* The handler of request i runs: pop_first for GET, insert for PUT, the
\* whole body under the mutex.  A handler that panics ends its connection
\* without a response.
RunHandler(i) ==
    /\ server.pc \in {"serving", "draining"}
    /\ requests[i].state = "inflight"
    /\ LET r == IF requests[i].method = "GET" THEN pop_first(ip_store)
                ELSE insert(ip_store, requests[i].ip)
       IN /\ ip_store' = r.store
          /\ requests' = [requests EXCEPT
                              ![i].state = IF r.panicked THEN "aborted" ELSE "done",
                              ![i].status = IF r.panicked THEN 0 ELSE 200,
                              ![i].body = r.body]
          /\ served' = Append(served,
                 [id |-> i, method |-> requests[i].method, ip |-> requests[i].ip,
                  before |-> ip_store.set, after |-> r.store.set,
                  panicked |-> r.panicked, body |-> r.body])
    /\ UNCHANGED <<store_file, server>>

\* shutdown_signal completes (SIGINT, SIGTERM or the notify): the server
\* stops accepting and waits for its connections.
Signal ==
    /\ server.pc = "serving"
    /\ server' = [server EXCEPT !.pc = "draining", !.at_signal = Len(requests)]
    /\ UNCHANGED <<ip_store, store_file, requests, served>>

\* axum::serve returns once its connections have finished, and start
\* flushes the allocator; a panic of flush ends start without a write.
ServeReturns ==
    /\ server.pc = "draining"
    /\ Drained(requests)
    /\ LET f == flush(ip_store, store_file) IN
        /\ store_file' = f.file
        /\ server' = [server EXCEPT
                          !.pc = IF f.panicked THEN "panicked" ELSE "stopped",
                          !.wrote = @ \/ ~f.panicked,
                          !.flushed = IF f.panicked THEN @ ELSE ip_store.set]
    /\ UNCHANGED <<ip_store, requests, served>>

InitIpam ==
    /\ ip_store = [set |-> {}, poisoned |-> FALSE]
    /\ store_file = NoStoreFile
    /\ server = DownServer
    /\ requests = <<>>
    /\ served = <<>>

(***************************************************************************)
(* The sock-ops program tcp_accelerate of src/ebpf/src/main.rs and         *)
(* SOCK_OPS_MAP.  The kernel calls the program on the events of a TCP      *)
(* socket; the fields of its context are in the byte order the kernel      *)
(* gives them.                                                             *)
(***************************************************************************)
AF_INET == 2

SockKey(src_ip, dst_ip, src_port, dst_port, family) ==
    [src_ip |-> src_ip, dst_ip |-> dst_ip, src_port |-> src_port,
     dst_port |-> dst_port, family |-> family]

\* The TCP sockets of the host: the two ends of a connection between two
\* local pods, a socket to a remote pod, and an IPv6 socket.
Sockets ==
    <<[family |-> AF_INET, active |-> TRUE, local |-> Pod1, lport |-> 4000,
       remote |-> Pod2, rport |-> 80],
      [family |-> AF_INET, active |-> FALSE, local |-> Pod2, lport |-> 80,
       remote |-> Pod1, rport |-> 4000],
      [family |-> 10, active |-> TRUE, local |-> Ip(0, 0, 0, 0), lport |-> 4001,
       remote |-> Ip(0, 0, 0, 0), rport |-> 80]>>

\* The context of a call: bpf_sock_ops of socket s for operation op.
\* local_ip4, remote_ip4 and remote_port are in network byte order,
\* local_port in host byte order.
SockOpsContext(s, op, arg1) ==
    [family |-> Sockets[s].family, op |-> op, arg1 |-> arg1,
     local_ip4 |-> to_be32(Sockets[s].local),
     remote_ip4 |-> to_be32(Sockets[s].remote),
     local_port |-> <<0, Sockets[s].lport>>,
     remote_port |-> <<Sockets[s].rport \div 256, Sockets[s].rport % 256, 0, 0>>,
     sk |-> s]

extract_sock_key_from(ctx) ==
    SockKey(from_be32(ctx.local_ip4), from_be32(ctx.remote_ip4), ctx.local_port,
            from_be32(ctx.remote_port), ctx.family)

\* What a call of the program leaves: the map, whether it set
\* BPF_SOCK_OPS_STATE_CB_FLAG, and what it returned.
SockOpsRes(map, cb_flag, ret) == [map |-> map, cb_flag |-> cb_flag, ret |-> ret]

\* try_tcp_accelerate: on an established callback of an IPv4 socket the
\* entry is written (BPF_ANY) and the state callbacks are asked for; every
\* other operation, the state callback included, falls to `_ => {}`.
try_tcp_accelerate(map, ctx, update_fails) ==
    IF ctx.family # AF_INET THEN SockOpsRes(map, FALSE, [ok |-> TRUE, val |-> 0])
    ELSE IF ctx.op \in {"ACTIVE_ESTABLISHED_CB", "PASSIVE_ESTABLISHED_CB"}
    THEN IF update_fails THEN SockOpsRes(map, FALSE, [ok |-> FALSE, val |-> 0])
         ELSE SockOpsRes([k \in DOMAIN map \cup {extract_sock_key_from(ctx)} |->
                             IF k = extract_sock_key_from(ctx) THEN ctx.sk ELSE map[k]],
                         TRUE, [ok |-> TRUE, val |-> 0])
    ELSE SockOpsRes(map, FALSE, [ok |-> TRUE, val |-> 0])

\* tcp_accelerate: try_tcp_accelerate(ctx).unwrap_or(0)
tcp_accelerate(map, ctx, update_fails) ==
    LET r == try_tcp_accelerate(map, ctx, update_fails) IN
    [r EXCEPT !.ret = IF r.ret.ok THEN r.ret.val ELSE 0]

FreshSock ==
    [state |-> "SYN", cb_flag |-> FALSE, inserted |-> FALSE, closed_cb |-> FALSE, ret |-> 0]

\* The TCP states a socket moves to from a state.
NextTcpStates(state) ==
    CASE state = "ESTABLISHED" -> {"CLOSE_WAIT", "FIN_WAIT1", "CLOSE"}
      [] state = "CLOSE_WAIT" -> {"LAST_ACK"}
      [] state = "LAST_ACK" -> {"CLOSE"}
      [] state = "FIN_WAIT1" -> {"CLOSE"}
      [] OTHER -> {}

\* Socket s completes its handshake: the kernel calls the program with the
\* active or the passive established operation.
SockEstablished(s) ==
    /\ socks[s].state = "SYN"
    /\ \E update_fails \in BOOLEAN :
        LET op == IF Sockets[s].active THEN "ACTIVE_ESTABLISHED_CB"
                  ELSE "PASSIVE_ESTABLISHED_CB"
            r == tcp_accelerate(SOCK_OPS_MAP, SockOpsContext(s, op, "ESTABLISHED"),
                                update_fails)
        IN /\ SOCK_OPS_MAP' = r.map
           /\ socks' = [socks EXCEPT ![s] =
                  [state |-> "ESTABLISHED", cb_flag |-> r.cb_flag,
                   inserted |-> r.cb_flag, closed_cb |-> FALSE, ret |-> r.ret]]

\* Socket s changes its TCP state; with BPF_SOCK_OPS_STATE_CB_FLAG set the
\* kernel calls the program with the state callback and the new state.
SockStateChange(s) ==
    /\ \E new \in NextTcpStates(socks[s].state) :
        LET r == IF socks[s].cb_flag
                 THEN tcp_accelerate(SOCK_OPS_MAP, SockOpsContext(s, "STATE_CB", new), FALSE)
                 ELSE SockOpsRes(SOCK_OPS_MAP, FALSE, 0)
        IN /\ SOCK_OPS_MAP' = r.map
           /\ socks' = [socks EXCEPT ![s].state = new,
                                     ![s].closed_cb = @ \/ (socks[s].cb_flag /\
                                         new \in {"CLOSE", "CLOSE_WAIT", "LAST_ACK"}),
                                     ![s].ret = r.ret]

InitSock ==
    /\ SOCK_OPS_MAP = <<>>
    /\ socks = [s \in DOMAIN Sockets |-> FreshSock]

(***************************************************************************)
(* The message frame of src/netlink/src/core/message.rs: Message::new,     *)
(* add, serialize, and Messages::from on a receive buffer.                 *)
(*                                                                         *)
(* The bytes added to a message are a sequence of runs, a run being n      *)
(* bytes of value b, so that a message can be longer than 65535 bytes.     *)
(* Headers and receive buffers are sequences of bytes.                     *)
(***************************************************************************)
NLMSG_HDRLEN == 16
NLMSG_ALIGNTO == 4
NLM_F_REQUEST == 1

Run(b, n) == [b |-> b, n |-> n]

\* data.len() of a sequence of runs
RECURSIVE RunsLen(_)
RunsLen(runs) == IF runs = <<>> THEN 0 ELSE Head(runs).n + RunsLen(Tail(runs))

u16_le(v) == <<v % 256, (v \div 256) % 256>>
u32_le(v) == <<v % 256, (v \div 256) % 256, (v \div 65536) % 256, (v \div 16777216) % 256>>
u16_from_le(b) == b[1] + 256 * b[2]
u32_from_le(b) == b[1] + 256 * b[2] + 65536 * b[3] + 16777216 * b[4]

\* align_of(len, align_to) == (len + align_to - 1) & !(align_to - 1)
align_of(len, align_to) == ((len + align_to - 1) \div align_to) * align_to

Header(len, type, flags, s, p) ==
    [nlmsg_len |-> len, nlmsg_type |-> type, nlmsg_flags |-> flags,
     nlmsg_seq |-> s, nlmsg_pid |-> p]

\* Header::new: flags are (NLM_F_REQUEST | flags) as u16
Header_new(proto, flags) ==
    Header(NLMSG_HDRLEN, proto,
           (NLM_F_REQUEST + flags - BitAnd(NLM_F_REQUEST, flags, 16)) % 65536, 0, 0)

\* bincode::serialize(&header): the fields in order, fixed width, little endian
bincode_serialize(h) ==
    u32_le(h.nlmsg_len) \o u16_le(h.nlmsg_type) \o u16_le(h.nlmsg_flags)
        \o u32_le(h.nlmsg_seq) \o u32_le(h.nlmsg_pid)

\* bincode::deserialize of the first 16 bytes of a buffer
bincode_deserialize(buf) ==
    Header(u32_from_le(SubSeq(buf, 1, 4)), u16_from_le(SubSeq(buf, 5, 6)),
           u16_from_le(SubSeq(buf, 7, 8)), u32_from_le(SubSeq(buf, 9, 12)),
           u32_from_le(SubSeq(buf, 13, 16)))

\* Message::new: payload None
Message_new(proto, flags) ==
    [header |-> Header_new(proto, flags), some |-> FALSE, payload |-> <<>>]

\* Message::add that leaves header.nlmsg_len as it is.
Message_add_keeps_len(m, data) ==
    [m EXCEPT !.some = TRUE, !.payload = @ \o data]

\* Message::add (the lengths of the model stay far below 2^32, where
\* nlmsg_len would wrap)
Message_add(m, data) ==
    [m EXCEPT !.header.nlmsg_len = @ + RunsLen(data),
              !.some = TRUE, !.payload = @ \o data]

\* Message::serialize: the header, the payload, and then the first two
\* bytes overwritten with (buf.len() as u16).to_ne_bytes().
Message_serialize(m) ==
    LET head == bincode_serialize(m.header)
        len == (Len(head) + (IF m.some THEN RunsLen(m.payload) ELSE 0)) % 65536
    IN [head |-> u16_le(len) \o SubSeq(head, 3, Len(head)),
        body |-> IF m.some THEN m.payload ELSE <<>>]

\* Message::from(buf): the header, and buf[NLMSG_HDRLEN..nlmsg_len] as the
\* payload; a range that is not in the buffer panics.
Message_from(buf) ==
    LET header == bincode_deserialize(buf) IN
    IF header.nlmsg_len < NLMSG_HDRLEN \/ header.nlmsg_len > Len(buf)
    THEN [panicked |-> TRUE, header |-> header, some |-> FALSE, payload |-> <<>>]
    ELSE [panicked |-> FALSE, header |-> header, some |-> TRUE,
          payload |-> SubSeq(buf, NLMSG_HDRLEN + 1, header.nlmsg_len)]

\* Messages::from(buf): while at least a header is left, parse a message
\* and go on at &buf[len..], len its aligned length; a len beyond the
\* buffer panics.
RECURSIVE Messages_from(_)
Messages_from(buf) ==
    IF Len(buf) < NLMSG_HDRLEN THEN [panicked |-> FALSE, messages |-> <<>>, rest |-> buf]
    ELSE LET message == Message_from(buf)
             len == align_of(message.header.nlmsg_len, NLMSG_ALIGNTO)
         IN IF message.panicked \/ len > Len(buf)
            THEN [panicked |-> TRUE, messages |-> <<>>, rest |-> buf]
            ELSE LET more == Messages_from(SubSeq(buf, len + 1, Len(buf)))
                 IN [panicked |-> more.panicked,
                     messages |-> <<[header |-> message.header, some |-> TRUE,
                                     payload |-> message.payload]>> \o more.messages,
                     rest |-> more.rest]

\* The byte vectors passed to add: none, one byte, a serialized attribute
\* of eight bytes, and a block that takes a message past 65535 bytes.
Chunks == { <<>>, <<Run(7, 1)>>, <<Run(8, 1), Run(0, 1), Run(3, 2), Run(108, 4)>>,
            <<Run(0, 65520)>> }

\* The payloads of the messages of a receive buffer.
WirePayloads == { <<>>, <<9>>, <<1, 2, 3, 4>>, <<1, 2, 3, 4, 5>> }

\* A message as the sender wrote it: its header, with the length of header
\* and payload, and its payload.
WireMessage(s, payload) ==
    [header |-> Header(NLMSG_HDRLEN + Len(payload), RTM_NEWLINK, NLM_F_MULTI, s, 0),
     some |-> TRUE, payload |-> payload]

\* The bytes of messages back to back, each padded to NLMSG_ALIGNTO, the
\* last one only if padded.
RECURSIVE Packed(_, _)
Packed(msgs, padded) ==
    IF msgs = <<>> THEN <<>>
    ELSE LET m == Head(msgs)
             pad == IF Len(msgs) > 1 \/ padded
                    THEN align_of(m.header.nlmsg_len, NLMSG_ALIGNTO) - m.header.nlmsg_len
                    ELSE 0
         IN bincode_serialize(m.header) \o m.payload \o [i \in 1..pad |-> 0]
                \o Packed(Tail(msgs), padded)

NoParse == [panicked |-> FALSE, messages |-> <<>>, rest |-> <<>>]

NoFrame ==
    [pc |-> "none", msg |-> Message_new(0, 0), added |-> <<>>,
     out |-> [head |-> <<>>, body |-> <<>>],
     sent |-> <<>>, buf |-> <<>>, parsed |-> NoParse]

\* Message::new(proto, flags)
MsgNew ==
    \E proto \in {RTM_NEWLINK, RTM_NEWADDR}, flags \in {0, 1, 4} :
        frame' = [NoFrame EXCEPT !.pc = "built", !.msg = Message_new(proto, flags)]

\* message.add(data)
MsgAdd ==
    /\ frame.pc \in {"built", "serialized"}
    /\ Len(frame.added) < MaxAdds
    /\ \E data \in Chunks :
        frame' = [frame EXCEPT !.pc = "built", !.msg = Message_add(@, data),
                               !.added = Append(@, data),
                               !.out = [head |-> <<>>, body |-> <<>>]]

\* message.serialize()
MsgSerialize ==
    /\ frame.pc = "built"
    /\ frame' = [frame EXCEPT !.pc = "serialized", !.out = Message_serialize(frame.msg)]

\* Messages::from(buf) on a buffer of well-formed messages
MsgParse ==
    \E n \in 0..MaxBufMsgs : \E payloads \in [1..n -> WirePayloads], padded \in BOOLEAN :
        LET sent == [i \in 1..n |-> WireMessage(i, payloads[i])]
            buf == Packed(sent, padded)
        IN frame' = [NoFrame EXCEPT !.pc = "parsed", !.sent = sent, !.buf = buf,
                                    !.parsed = Messages_from(buf)]

InitFrame == frame = NoFrame

(***************************************************************************)
(* The attribute codec of src/rsln/src/types/message.rs: RouteAttr and     *)
(* RouteAttrs.  A RouteAttr is a record of its header fields, its payload  *)
(* (a sequence of bytes) and its attributes (an Option of a sequence of    *)
(* RouteAttr: `some` tells Some from None).                                *)
(***************************************************************************)
RTA_ALIGNTO == 4
RT_ATTR_HDR_SIZE == 4

\* RouteAttr::with_attrs: rta_len counts the header and the payload, not
\* the attributes handed in.
with_attrs(rta_type, payload, some, attrs) ==
    [rta_len |-> (RT_ATTR_HDR_SIZE + Len(payload)) % 65536, rta_type |-> rta_type,
     payload |-> payload, some |-> some, attributes |-> attrs]

\* RouteAttr::new
RouteAttr_new(rta_type, payload) == with_attrs(rta_type, payload, FALSE, <<>>)

\* RouteAttr::add_attribute: rta_len grows by the child's len(), its rta_len
add_attribute(a, child) ==
    [a EXCEPT !.rta_len = (@ + child.rta_len) % 65536, !.some = TRUE,
              !.attributes = Append(@, child)]

\* The bytes a.serialize() has written before the attributes: the header,
\* the payload, and zeros up to RTA_ALIGNTO.
AttrHead(a) ==
    LET raw == u16_le(a.rta_len) \o u16_le(a.rta_type) \o a.payload IN
    raw \o [i \in 1..(align_of(Len(raw), RTA_ALIGNTO) - Len(raw)) |-> 0]

\* RouteAttr::serialize without the backpatch of the length.
RECURSIVE RouteAttr_serialize_no_backpatch(_)
RouteAttr_serialize_no_backpatch(a) ==
    IF ~a.some THEN AttrHead(a)
    ELSE LET RECURSIVE Children(_)
             Children(attrs) ==
                 IF attrs = <<>> THEN <<>>
                 ELSE RouteAttr_serialize_no_backpatch(Head(attrs)) \o Children(Tail(attrs))
         IN AttrHead(a) \o Children(a.attributes)

\* RouteAttr::serialize: with attributes, each of them serialized after the
\* padded payload, and the first two bytes overwritten with
\* (buf.len() as u16).to_ne_bytes().
RECURSIVE RouteAttr_serialize(_)
RouteAttr_serialize(a) ==
    IF ~a.some THEN AttrHead(a)
    ELSE LET RECURSIVE Children(_)
             Children(attrs) ==
                 IF attrs = <<>> THEN <<>>
                 ELSE RouteAttr_serialize(Head(attrs)) \o Children(Tail(attrs))
             buf == AttrHead(a) \o Children(a.attributes)
         IN u16_le(Len(buf) % 65536) \o SubSeq(buf, 3, Len(buf))

\* RouteAttr::from(buf): the header, buf[RT_ATTR_HDR_SIZE..rta_len] as the
\* payload, and attributes None.
RouteAttr_from(buf) ==
    LET len == u16_from_le(SubSeq(buf, 1, 2)) IN
    [panicked |-> len < RT_ATTR_HDR_SIZE \/ len > Len(buf),
     attr |-> [rta_len |-> len, rta_type |-> u16_from_le(SubSeq(buf, 3, 4)),
               payload |-> SubSeq(buf, RT_ATTR_HDR_SIZE + 1, len),
               some |-> FALSE, attributes |-> <<>>]]

\* RouteAttrs::from(buf)
RECURSIVE RouteAttrs_from(_)
RouteAttrs_from(buf) ==
    IF Len(buf) < RT_ATTR_HDR_SIZE THEN [panicked |-> FALSE, attrs |-> <<>>]
    ELSE LET a == RouteAttr_from(buf)
             len == align_of(a.attr.rta_len, RTA_ALIGNTO)
         IN IF a.panicked \/ len > Len(buf) THEN [panicked |-> TRUE, attrs |-> <<>>]
            ELSE LET more == RouteAttrs_from(SubSeq(buf, len + 1, Len(buf)))
                 IN [panicked |-> more.panicked, attrs |-> <<a.attr>> \o more.attrs]

\* An IpAddr: its variant and its octets (4 or 16).
IpV4(o) == [v6 |-> FALSE, octets |-> o]
IpV6(o) == [v6 |-> TRUE, octets |-> o]
NoAddr == [v6 |-> FALSE, octets |-> <<>>]
None(blank) == [some |-> FALSE, val |-> blank]
Some(v) == [some |-> TRUE, val |-> v]

IFLA_INFO_DATA == 2
IFLA_VXLAN_ID == 1
IFLA_VXLAN_GROUP == 2
IFLA_VXLAN_LINK == 3
IFLA_VXLAN_LOCAL == 4
IFLA_VXLAN_TTL == 5
IFLA_VXLAN_TOS == 6
IFLA_VXLAN_LEARNING == 7
IFLA_VXLAN_AGEING == 8
IFLA_VXLAN_LIMIT == 9
IFLA_VXLAN_PORT_RANGE == 10
IFLA_VXLAN_PROXY == 11
IFLA_VXLAN_RSC == 12
IFLA_VXLAN_L2MISS == 13
IFLA_VXLAN_L3MISS == 14
IFLA_VXLAN_PORT == 15
IFLA_VXLAN_GROUP6 == 16
IFLA_VXLAN_LOCAL6 == 17
IFLA_VXLAN_UDP_CSUM == 18
IFLA_VXLAN_UDP_ZERO_CSUM6_TX == 19
IFLA_VXLAN_UDP_ZERO_CSUM6_RX == 20
IFLA_VXLAN_GBP == 23
IFLA_VXLAN_FLOWBASED == 25

\* bool as u8
bool_u8(b) == IF b THEN 1 ELSE 0

\* u16::to_be_bytes
u16_be(v) == <<(v \div 256) % 256, v % 256>>

\* The closure add_attr of from_vxlan: push RouteAttr::new(rta_type, payload)
\* if cond
add_attr(attrs, cond, rta_type, payload) ==
    IF cond THEN Append(attrs, RouteAttr_new(rta_type, payload)) ELSE attrs

\* A slip in from_vxlan: the configured id is kept in flow-based mode.
vxlan_id_kept(vxlan_attrs) == vxlan_attrs.id

\* The id from_vxlan writes: 0 if flow_based, else the configured one
vxlan_id(vxlan_attrs) == IF vxlan_attrs.flow_based THEN 0 ELSE vxlan_attrs.id

\* RouteAttr::from_vxlan
from_vxlan(vxlan_attrs) ==
    LET a1 == add_attr(<<>>, TRUE, IFLA_VXLAN_ID, u32_le(vxlan_id(vxlan_attrs)))
        a2 == add_attr(a1, vxlan_attrs.flow_based, IFLA_VXLAN_FLOWBASED,
                       <<bool_u8(vxlan_attrs.flow_based)>>)
        a3 == add_attr(a2, vxlan_attrs.vtep_index.some, IFLA_VXLAN_LINK,
                       u32_le(vxlan_attrs.vtep_index.val))
        a4 == IF ~vxlan_attrs.group.some THEN a3
              ELSE IF Len(vxlan_attrs.group.val) = 4
              THEN add_attr(a3, TRUE, IFLA_VXLAN_GROUP, vxlan_attrs.group.val)
              ELSE IF Len(vxlan_attrs.group.val) = 16
              THEN add_attr(a3, TRUE, IFLA_VXLAN_GROUP6, vxlan_attrs.group.val)
              ELSE a3
        a5 == IF ~vxlan_attrs.src_addr.some THEN a4
              ELSE IF Len(vxlan_attrs.src_addr.val) = 4
              THEN add_attr(a4, TRUE, IFLA_VXLAN_LOCAL, vxlan_attrs.src_addr.val)
              ELSE IF Len(vxlan_attrs.src_addr.val) = 16
              THEN add_attr(a4, TRUE, IFLA_VXLAN_LOCAL6, vxlan_attrs.src_addr.val)
              ELSE a4
        a6 == add_attr(a5, TRUE, IFLA_VXLAN_TTL, <<vxlan_attrs.ttl>>)
        a7 == add_attr(a6, TRUE, IFLA_VXLAN_TOS, <<vxlan_attrs.tos>>)
        a8 == add_attr(a7, TRUE, IFLA_VXLAN_LEARNING, <<bool_u8(vxlan_attrs.learning)>>)
        a9 == add_attr(a8, TRUE, IFLA_VXLAN_PROXY, <<bool_u8(vxlan_attrs.proxy)>>)
        a10 == add_attr(a9, TRUE, IFLA_VXLAN_RSC, <<bool_u8(vxlan_attrs.rsc)>>)
        a11 == add_attr(a10, TRUE, IFLA_VXLAN_L2MISS, <<bool_u8(vxlan_attrs.l2miss)>>)
        a12 == add_attr(a11, TRUE, IFLA_VXLAN_L3MISS, <<bool_u8(vxlan_attrs.l3miss)>>)
        a13 == add_attr(a12, TRUE, IFLA_VXLAN_UDP_ZERO_CSUM6_TX,
                        <<bool_u8(vxlan_attrs.udp_zero_csum6_tx)>>)
        a14 == add_attr(a13, TRUE, IFLA_VXLAN_UDP_ZERO_CSUM6_RX,
                        <<bool_u8(vxlan_attrs.udp_zero_csum6_rx)>>)
        a15 == add_attr(a14, vxlan_attrs.udp_csum, IFLA_VXLAN_UDP_CSUM,
                        <<bool_u8(vxlan_attrs.udp_csum)>>)
        a16 == add_attr(a15, vxlan_attrs.gbp, IFLA_VXLAN_GBP, <<>>)
        ageing == IF vxlan_attrs.ageing.some /\ vxlan_attrs.ageing.val > 0
                  THEN u32_le(vxlan_attrs.ageing.val) ELSE <<0, 0, 0, 0>>
        a17 == add_attr(a16, TRUE, IFLA_VXLAN_AGEING, ageing)
        a18 == add_attr(a17, vxlan_attrs.limit.some /\ vxlan_attrs.limit.val > 0,
                        IFLA_VXLAN_LIMIT, u32_le(vxlan_attrs.limit.val))
        a19 == add_attr(a18, vxlan_attrs.port.some /\ vxlan_attrs.port.val > 0,
                        IFLA_VXLAN_PORT, u16_be(vxlan_attrs.port.val))
        a20 == add_attr(a19, /\ vxlan_attrs.port_range.some
                             /\ (vxlan_attrs.port_range.val[1] > 0
                                 \/ vxlan_attrs.port_range.val[2] > 0),
                        IFLA_VXLAN_PORT_RANGE,
                        u16_le(vxlan_attrs.port_range.val[1])
                            \o u16_le(vxlan_attrs.port_range.val[2]))
    IN with_attrs(IFLA_INFO_DATA, <<>>, TRUE, a20)

\* VxlanAttrs::default()
DefaultVxlan ==
    [id |-> 0, vtep_index |-> None(0), src_addr |-> None(<<>>), group |-> None(<<>>),
     ttl |-> 0, tos |-> 0, learning |-> FALSE, proxy |-> FALSE, rsc |-> FALSE,
     l2miss |-> FALSE, l3miss |-> FALSE, udp_csum |-> FALSE,
     udp_zero_csum6_tx |-> FALSE, udp_zero_csum6_rx |-> FALSE, gbp |-> FALSE,
     flow_based |-> FALSE, ageing |-> None(0), limit |-> None(0), port |-> None(0),
     port_range |-> None(<<0, 0>>)]

\* The VxlanAttrs values a link is added with.
VxlanInputs ==
    { [DefaultVxlan EXCEPT !.id = i, !.flow_based = fb, !.port = pt, !.src_addr = sa,
                           !.vtep_index = vi, !.learning = ln, !.gbp = g] :
        i \in {0, 1, 42}, fb \in BOOLEAN, pt \in {None(0), Some(0), Some(8472)},
        sa \in {None(<<>>), Some(<<192, 168, 0, 1>>)}, vi \in {None(0), Some(1)},
        ln \in BOOLEAN, g \in BOOLEAN }

\* The number of RouteAttr values of a tree.
RECURSIVE Nodes(_)
Nodes(a) ==
    LET RECURSIVE Sum(_)
        Sum(attrs) == IF attrs = <<>> THEN 0 ELSE Nodes(Head(attrs)) + Sum(Tail(attrs))
    IN 1 + Sum(a.attributes)

RECURSIVE StackNodes(_)
StackNodes(stack) == IF stack = <<>> THEN 0 ELSE Nodes(Head(stack)) + StackNodes(Tail(stack))

\* The types and payloads of the attributes built: no payload, a payload
\* of one byte (padded on the wire), a payload of four.
AttrLabels ==
    { [rta_type |-> 1, payload |-> <<>>], [rta_type |-> 2, payload |-> <<7>>],
      [rta_type |-> 3, payload |-> <<1, 2, 3, 4>>] }

NoBench == [pc |-> "build", stack |-> <<>>, out |-> <<>>,
            parsed |-> [panicked |-> FALSE, attrs |-> <<>>],
            vxlan |-> None(DefaultVxlan)]

\* RouteAttr::new(rta_type, payload), the new value on top of the stack
AttrNew ==
    /\ bench.pc = "build"
    /\ StackNodes(bench.stack) < MaxNodes
    /\ \E l \in AttrLabels :
        bench' = [bench EXCEPT !.stack = Append(@, RouteAttr_new(l.rta_type, l.payload))]

\* below.add_attribute(Box::new(top)) on the two values on top of the stack
AttrAddAttribute ==
    /\ bench.pc = "build"
    /\ Len(bench.stack) >= 2
    /\ LET n == Len(bench.stack) IN
        bench' = [bench EXCEPT !.stack =
            Append(SubSeq(@, 1, n - 2), add_attribute(@[n - 1], @[n]))]

\* RouteAttr::with_attrs(rta_type, payload, Some(attrs)), attrs the values
\* of the stack
AttrWithAttrs ==
    /\ bench.pc = "build"
    /\ bench.stack # <<>>
    /\ StackNodes(bench.stack) < MaxNodes
    /\ \E l \in AttrLabels :
        bench' = [bench EXCEPT !.stack =
            <<with_attrs(l.rta_type, l.payload, TRUE, bench.stack)>>]

\* RouteAttr::from_vxlan(vxlan_attrs), its result the one value of the stack
AttrFromVxlan ==
    /\ bench.pc = "build"
    /\ bench.stack = <<>>
    /\ \E vxlan_attrs \in VxlanInputs :
        bench' = [bench EXCEPT !.stack = <<from_vxlan(vxlan_attrs)>>,
                               !.vxlan = Some(vxlan_attrs)]

\* attr.serialize() of the one value on the stack, and RouteAttrs::from on
\* the bytes
AttrSerialize ==
    /\ bench.pc = "build"
    /\ Len(bench.stack) = 1
    /\ LET buf == RouteAttr_serialize(bench.stack[1]) IN
        bench' = [bench EXCEPT !.pc = "serialized", !.out = buf,
                               !.parsed = RouteAttrs_from(buf)]

InitAttr == bench = NoBench

(***************************************************************************)
(* Route requests (rsln): RouteHandle::handle builds an rtmsg and its      *)
(* attributes from a Routing value and sends them in one request.          *)
(* to_ne_bytes is little-endian on the targets the crate builds for.       *)
(***************************************************************************)
AF_INET6 == 10
RTM_NEWROUTE == 24
RTM_DELROUTE == 25
RTM_GETROUTE == 26
RTA_DST == 1
RTA_OIF == 4
RTA_GATEWAY == 5
RTA_PREFSRC == 7
RTA_MTU == 2
RTA_VIA == 18
RT_TABLE_MAIN == 254
RTPROT_BOOT == 3
RT_SCOPE_UNIVERSE == 0
RT_SCOPE_NOWHERE == 255
RTN_UNICAST == 1
NLM_F_ACK == 4
NLM_F_CREATE_EXCL_ACK == 1540

\* AddrFamily::V4 / AddrFamily::V6 as u16, as Via::new stores it
Via_new(addr) == [family |-> IF addr.v6 THEN AF_INET6 ELSE AF_INET, addr |-> addr]

\* A slip in Via::encode: the family is left out of the payload.
Via_encode_no_family(v) == v.addr.octets

\* Via::encode: the family's two bytes, then the address octets
Via_encode(v) == u16_le(v.family) \o v.addr.octets   \* family.to_ne_bytes()

\* struct RouteMessage
RouteMessage(family, dst_len, src_len, tos, table, protocol, scope, route_type, flags) ==
    [family |-> family, dst_len |-> dst_len, src_len |-> src_len, tos |-> tos,
     table |-> table, protocol |-> protocol, scope |-> scope,
     route_type |-> route_type, flags |-> flags]

\* RouteMessage::new
RouteMessage_new ==
    RouteMessage(0, 0, 0, 0, RT_TABLE_MAIN, RTPROT_BOOT, RT_SCOPE_UNIVERSE, RTN_UNICAST, 0)

\* RouteMessage::new_delete_msg
new_delete_msg == RouteMessage(0, 0, 0, 0, RT_TABLE_MAIN, 0, RT_SCOPE_NOWHERE, 0, 0)

\* RouteMessage::serialize: bincode of eight u8 fields and a u32, 12 bytes
RouteMessage_serialize(m) ==
    <<m.family, m.dst_len, m.src_len, m.tos, m.table, m.protocol, m.scope, m.route_type>>
        \o u32_le(m.flags)

\* bincode::deserialize of the first 12 bytes of a route request's payload
RouteMessage_deserialize(buf) ==
    RouteMessage(buf[1], buf[2], buf[3], buf[4], buf[5], buf[6], buf[7], buf[8],
                 u32_from_le(SubSeq(buf, 9, 12)))

\* libc::AF_INET / libc::AF_INET6 of an address, as the matches of handle() give it
family_of(addr) == IF addr.v6 THEN AF_INET6 ELSE AF_INET

RECURSIVE serialize_all(_)
serialize_all(attrs) ==
    IF attrs = <<>> THEN <<>>
    ELSE RouteAttr_serialize(Head(attrs)) \o serialize_all(Tail(attrs))

\* A slip in handle(): families are never found to differ.
family_never_mismatch(msg_family, addr_family) == FALSE

\* The test handle() makes on a src and on a gw once the message has a
\* family: msg.family != family as u8 (msg.family == 0 is taken first)
family_mismatch(msg_family, addr_family) == msg_family # 0 /\ msg_family # addr_family

\* RouteHandle::handle(route, proto, flags) on a socket h (seq: its counter,
\* nsent: how many requests it has sent); reply_ok: the kernel acknowledged
\* the request.  The result is the socket afterwards, the request this call
\* sent (none: <<>>) and the error returned ("": Ok).
handle(h, route, proto, flags, reply_ok) ==
    LET msg0   == IF proto = RTM_DELROUTE THEN new_delete_msg ELSE RouteMessage_new
        attrs0 == IF proto # RTM_GETROUTE \/ route.oif_index > 0
                  THEN <<RouteAttr_new(RTA_OIF, i32_to_ne_bytes(route.oif_index))>> ELSE <<>>
        msg1   == IF route.dst.some
                  THEN [msg0 EXCEPT !.family = family_of(route.dst.val.addr),
                                    !.dst_len = route.dst.val.prefix_len]
                  ELSE msg0
        attrs1 == IF route.dst.some
                  THEN Append(attrs0, RouteAttr_new(RTA_DST, route.dst.val.addr.octets))
                  ELSE attrs0
        src_bad == route.src.some /\ family_mismatch(msg1.family, family_of(route.src.val))
        msg2   == IF route.src.some /\ msg1.family = 0
                  THEN [msg1 EXCEPT !.family = family_of(route.src.val)] ELSE msg1
        attrs2 == IF route.src.some
                  THEN Append(attrs1, RouteAttr_new(RTA_PREFSRC, route.src.val.octets))
                  ELSE attrs1
        gw_bad == route.gw.some /\ family_mismatch(msg2.family, family_of(route.gw.val))
        msg3   == IF route.gw.some /\ msg2.family = 0
                  THEN [msg2 EXCEPT !.family = family_of(route.gw.val)] ELSE msg2
        attrs3 == IF route.gw.some
                  THEN Append(attrs2, RouteAttr_new(RTA_GATEWAY, route.gw.val.octets))
                  ELSE attrs2
        attrs4 == IF route.via.some
                  THEN Append(attrs3, RouteAttr_new(RTA_VIA, Via_encode(route.via.val)))
                  ELSE attrs3
        attrs5 == IF route.mtu.some
                  THEN Append(attrs4, RouteAttr_new(RTA_MTU, i32_to_ne_bytes(route.mtu.val)))
                  ELSE attrs4
        msg4   == [msg3 EXCEPT !.flags = route.flags, !.scope = route.scope]
        s      == next_seq_of(h.seq)
    IN IF src_bad
       THEN [seq |-> h.seq, nsent |-> h.nsent, sent |-> <<>>,
             err |-> "src and dst address family mismatch"]
       ELSE IF gw_bad
       THEN [seq |-> h.seq, nsent |-> h.nsent, sent |-> <<>>,
             err |-> "gw, src and dst address family mismatch"]
       ELSE [seq |-> s, nsent |-> h.nsent + 1,
             sent |-> <<[nlmsg_type |-> proto, nlmsg_flags |-> flags, nlmsg_seq |-> s,
                         payload |-> RouteMessage_serialize(msg4) \o serialize_all(attrs5)]>>,
             err |-> IF reply_ok THEN "" ELSE "kernel"]

\* The addresses the calls are made with.
V4Net == [addr |-> IpV4(<<192, 168, 0, 0>>), prefix_len |-> 24]
V6Net == [addr |-> IpV6(<<253, 0, 0, 0, 0, 0, 0, 0, 0, 0, 0, 0, 0, 0, 0, 0>>), prefix_len |-> 64]
NoNet == [addr |-> NoAddr, prefix_len |-> 0]
V4Addr == IpV4(<<192, 168, 0, 1>>)
V6Addr == IpV6(<<32, 1, 0, 0, 0, 0, 0, 0, 0, 0, 0, 0, 0, 0, 0, 1>>)
RouteAddrs == {None(NoAddr), Some(V4Addr), Some(V6Addr)}

\* The Routing values handle() is called with: every mix of families of the
\* four addresses under the default and the NOWHERE scope, and a few values
\* with no output link or with an mtu.
PlainRoutings ==
    [oif_index : {3},
     dst : {None(NoNet), Some(V4Net), Some(V6Net)},
     src : RouteAddrs,
     gw : RouteAddrs,
     via : {None(Via_new(NoAddr)), Some(Via_new(V4Addr)), Some(Via_new(V6Addr))},
     mtu : {None(0)},
     scope : {RT_SCOPE_UNIVERSE, RT_SCOPE_NOWHERE},
     flags : {0}]

Routings ==
    PlainRoutings
    \cup { [r EXCEPT !.oif_index = 0] : r \in { q \in PlainRoutings : ~q.src.some /\ ~q.gw.some } }
    \cup { [r EXCEPT !.mtu = Some(1450)] :
              r \in { q \in PlainRoutings : ~q.src.some /\ ~q.via.some } }

\* The requests the crate makes: message type and flags.
RouteRequests ==
    {<<RTM_NEWROUTE, NLM_F_CREATE_EXCL_ACK>>, <<RTM_DELROUTE, NLM_F_ACK>>,
     <<RTM_GETROUTE, NLM_F_ACK>>}

NoRouteCall == [route |-> CHOOSE r \in Routings : TRUE, proto |-> 0, before |-> 0,
                sent_before |-> 0, err |-> ""]

\* SocketHandle::new, no request made yet
FreshRouteHandle == [seq |-> 0, nsent |-> 0, sent |-> <<>>, call |-> NoRouteCall]

\* One call of RouteHandle::handle
RouteHandleCall ==
    /\ route_handle.seq < MaxRouteCalls
    /\ \E route \in Routings, rq \in RouteRequests, reply_ok \in BOOLEAN :
          LET r == handle(route_handle, route, rq[1], rq[2], reply_ok) IN
          route_handle' = [seq |-> r.seq, nsent |-> r.nsent, sent |-> r.sent,
                           call |-> [route |-> route, proto |-> rq[1],
                                     before |-> route_handle.seq,
                                     sent_before |-> route_handle.nsent,
                                     err |-> r.err]]

InitRoute == route_handle = FreshRouteHandle

(***************************************************************************)
(* BpfLoader::load of src/agent/src/bpf_loader.rs: the object is loaded,   *)
(* the two classifiers are attached to the interface, and then the maps    *)
(* are written, one insert after the other.  The kernel runs an attached   *)
(* classifier on every packet of the interface from the attach on.         *)
(***************************************************************************)
\* node_ips, in the order load() is given them.
node_ips == <<HostIp, PeerNodeIp>>

\* Bpf::load has returned: no program attached, the maps empty.
FreshBpf == [pc |-> "attach_ingress", attached |-> {}, nodes |-> 0]

\* load() has reached api_server::start.
LoadedBpf == [pc |-> "serving", attached |-> {"tc_ingress", "tc_egress"},
              nodes |-> Len(node_ips)]

\* tc_ingress.load()?; tc_ingress.attach(&self.iface, TcAttachType::Ingress)?;
AttachIngress ==
    /\ bpf.pc = "attach_ingress"
    /\ bpf' = [bpf EXCEPT !.pc = "attach_egress", !.attached = @ \cup {"tc_ingress"}]
    /\ UNCHANGED natVars

\* tc_egress.load()?; tc_egress.attach(&self.iface, TcAttachType::Egress)?;
AttachEgress ==
    /\ bpf.pc = "attach_egress"
    /\ bpf' = [bpf EXCEPT !.pc = "insert_host_ip", !.attached = @ \cup {"tc_egress"}]
    /\ UNCHANGED natVars

\* net_config_map.insert(HOST_IP_KEY, host_ip_info, 0)?;
InsertHostIp ==
    /\ bpf.pc = "insert_host_ip"
    /\ NET_CONFIG_MAP' = MapInsert(NET_CONFIG_MAP, HOST_IP_KEY, LoadedConfig[HOST_IP_KEY])
    /\ bpf' = [bpf EXCEPT !.pc = "insert_cluster_cidr"]
    /\ UNCHANGED <<NODE_MAP, SNAT_IPV4_MAP, last, lastNatOf, tracked>>

\* net_config_map.insert(CLUSTER_CIDR_KEY, cluster_cidr_info, 0)?;
InsertClusterCidr ==
    /\ bpf.pc = "insert_cluster_cidr"
    /\ NET_CONFIG_MAP' = MapInsert(NET_CONFIG_MAP, CLUSTER_CIDR_KEY,
                                   LoadedConfig[CLUSTER_CIDR_KEY])
    /\ bpf' = [bpf EXCEPT !.pc = "insert_nodes"]
    /\ UNCHANGED <<NODE_MAP, SNAT_IPV4_MAP, last, lastNatOf, tracked>>

\* One round of node_ips.iter().for_each(|ip| node_map.insert(ip_addr, 0, 0)),
\* and after the last one load() goes on to api_server::start.
InsertNode ==
    /\ bpf.pc = "insert_nodes"
    /\ NODE_MAP' = NODE_MAP \cup {node_ips[bpf.nodes + 1]}
    /\ bpf' = [bpf EXCEPT !.nodes = @ + 1,
                          !.pc = IF bpf.nodes + 1 = Len(node_ips) THEN "serving" ELSE @]
    /\ UNCHANGED <<NET_CONFIG_MAP, SNAT_IPV4_MAP, last, lastNatOf, tracked>>

\* A step of load() returns its error through `?` (the program is refused,
\* the attach or the insert fails): load() returns, the Bpf value is dropped
\* and its programs and maps with it.
LoadFails ==
    /\ bpf.pc \in {"attach_ingress", "attach_egress", "insert_host_ip", "insert_cluster_cidr"}
    /\ bpf' = [bpf EXCEPT !.pc = "failed", !.attached = {}]
    /\ UNCHANGED natVars

\* The packets of the uplink while load() runs.
LoaderEgressPackets ==
    { TcpPacket(Pod1, 4000, External, 443),
      TcpPacket(Pod1, 4000, RemotePod, 443),
      TcpPacket(HostIp, 30000, External, 443) }

LoaderIngressPackets ==
    { TcpPacket(External, 443, HostIp, 4000),
      TcpPacket(RemotePod, 443, HostIp, 30000) }

\* The kernel runs the classifiers that are attached.
LoaderEgress == "tc_egress" \in bpf.attached /\ tc_egress_of(LoaderEgressPackets)
LoaderIngress == "tc_ingress" \in bpf.attached /\ tc_ingress_of(LoaderIngressPackets)

(***************************************************************************)
(* The controller of src/agent/src/controller.rs.  The objects here carry  *)
(* the finalizer and no deletion timestamp, so that reconcile() hands them *)
(* to Sinabro::reconcile (Finalizer::Apply).                               *)
(***************************************************************************)
SinabroSpec(test) == [test |-> test]
SinabroStatus(tested) == [tested |-> tested]

\* A Sinabro object: its name, its spec and its status (an Option).
Sinabro(name, spec, status) == [name |-> name, spec |-> spec, status |-> status]

NoStatus == None(SinabroStatus(FALSE))

\* A slip in was_tested: an object without status counts as tested.
was_tested_by_default(sin) ==
    IF sin.status.some THEN sin.status.val.tested ELSE TRUE

\* self.status.as_ref().map(|s| s.tested).unwrap_or(false)
was_tested(sin) ==
    IF sin.status.some THEN sin.status.val.tested ELSE FALSE

\* What Sinabro::reconcile leaves: the calls the API server accepted, in
\* order, the status it patched (an Option), and what it returned.
ReconcileRes(calls, patched, ret) == [calls |-> calls, patched |-> patched, ret |-> ret]

\* Sinabro::reconcile.  publish_ok, patch_ok: the API server accepts the
\* event, the status patch.
Sinabro_reconcile(sin, publish_ok, patch_ok) ==
    LET should_test == sin.spec.test
        publishes == ~was_tested(sin) /\ should_test
        calls == IF publishes THEN <<"TestRequested">> ELSE <<>>
    IN  IF publishes /\ ~publish_ok THEN ReconcileRes(<<>>, NoStatus, "KubeError")
        ELSE IF sin.name = "illegal" THEN ReconcileRes(calls, NoStatus, "IllegalSinabro")
        ELSE IF ~patch_ok THEN ReconcileRes(calls, NoStatus, "KubeError")
        ELSE ReconcileRes(Append(calls, "patch_status"),
                          Some(SinabroStatus(should_test)), "Ok")

NoSinabro == Sinabro("", SinabroSpec(FALSE), NoStatus)

NoReconcile ==
    [ran |-> FALSE, sin |-> NoSinabro, calls |-> <<>>, patched |-> NoStatus, ret |-> "none"]

\* No object yet, no event, no reconcile.
FreshCtl == [obj |-> None(NoSinabro), events |-> 0, runs |-> 0, last |-> NoReconcile]

SinabroNames == {"test", "illegal"}

\* A user applies the object: it is created, or its spec is replaced (the
\* status is not part of what is applied).
ApplyObject ==
    \E name \in SinabroNames, test \in BOOLEAN :
        /\ ctl.obj.some => ctl.obj.val.name = name
        /\ ctl' = [ctl EXCEPT !.obj =
                      Some(Sinabro(name, SinabroSpec(test),
                                   IF ctl.obj.some THEN ctl.obj.val.status ELSE NoStatus))]

\* The controller runs Sinabro::reconcile on the object.
Reconcile ==
    \E publish_ok, patch_ok \in BOOLEAN :
        /\ ctl.obj.some
        /\ ctl.runs < MaxReconciles
        /\ LET sin == ctl.obj.val
               r == Sinabro_reconcile(sin, publish_ok, patch_ok)
           IN ctl' = [ctl EXCEPT
                        !.obj = IF r.patched.some
                                THEN Some([sin EXCEPT !.status = r.patched]) ELSE @,
                        !.events = IF \E i \in DOMAIN r.calls : r.calls[i] = "TestRequested"
                                   THEN @ + 1 ELSE @,
                        !.runs = @ + 1,
                        !.last = [ran |-> TRUE, sin |-> sin, calls |-> r.calls,
                                  patched |-> r.patched, ret |-> r.ret]]

(***************************************************************************)
(* SocketHandle (the engine), its Socket and the typed handles made from   *)
(* it.  Socket is a descriptor number with #[derive(Clone)] and a Drop     *)
(* that closes the number.  handle_link of src/netlink hands                *)
(* self.clone() to the typed handle; handle_route of src/rsln hands it     *)
(* &mut self.  fd is what the process's descriptor table holds under the   *)
(* engine's number: "none" before the socket is made, "engine" the         *)
(* engine's socket, "closed" nothing, "other" a file that some other code  *)
(* of the process opened and got the same number for.                      *)
(***************************************************************************)
NoHandle == [kind |-> "none", seq |-> 0]

\* Before SocketHandle::new.  closes counts the close calls on the number,
\* stray the close calls that did not close the engine's own socket, misused
\* the sends on the number when it was not the engine's socket, copied
\* whether a handle was made of a copy.
FreshSk ==
    [engine |-> [alive |-> FALSE, seq |-> 0], fd |-> "none", handle |-> NoHandle,
     closes |-> 0, stray |-> 0, misused |-> FALSE, copied |-> FALSE, calls |-> 0]

\* SocketHandle::new: the socket is opened and bound, seq is 0.
SocketHandle_new ==
    /\ sk.fd = "none"
    /\ sk' = [sk EXCEPT !.engine = [alive |-> TRUE, seq |-> 0], !.fd = "engine"]

\* netlink's pub fn handle_link(&self) -> LinkHandle { LinkHandle::from(self.clone()) }
handle_link ==
    /\ sk.engine.alive
    /\ sk.handle.kind = "none"
    /\ sk.closes < MaxHandleCalls
    /\ sk' = [sk EXCEPT !.handle = [kind |-> "copy", seq |-> sk.engine.seq],
                        !.copied = TRUE]

\* rsln's pub fn handle_route(&mut self) -> RouteHandle<'_> { RouteHandle::from(self) }
handle_route ==
    /\ sk.engine.alive
    /\ sk.handle.kind = "none"
    /\ sk' = [sk EXCEPT !.handle = [kind |-> "borrow", seq |-> sk.engine.seq]]

\* Socket::send and recv on the number: they reach the engine's socket only
\* while the table holds it.
Used(s) == [s EXCEPT !.misused = @ \/ s.fd # "engine", !.calls = @ + 1]

\* request() through the typed handle (Deref to its SocketHandle): next_seq
\* on the SocketHandle the handle holds, then send and recv on its socket.
HandleRequest ==
    /\ sk.handle.kind # "none"
    /\ sk.calls < MaxHandleCalls
    /\ sk' = IF sk.handle.kind = "borrow"
             THEN [Used(sk) EXCEPT !.engine.seq = next_seq_of(@),
                                   !.handle.seq = next_seq_of(sk.engine.seq)]
             ELSE [Used(sk) EXCEPT !.handle.seq = next_seq_of(@)]

\* request() on the engine itself, which a mutable borrow rules out for as
\* long as the borrowing handle lives.
EngineRequest ==
    /\ sk.engine.alive
    /\ sk.handle.kind # "borrow"
    /\ sk.calls < MaxHandleCalls
    /\ sk' = [Used(sk) EXCEPT !.engine.seq = next_seq_of(@)]

\* Drop for Socket: libc::close(self.fd).
Closed(s) ==
    [s EXCEPT !.fd = "closed", !.closes = @ + 1,
              !.stray = IF s.fd = "engine" THEN @ ELSE @ + 1]

\* The typed handle goes out of scope: a reference is released; a copy of
\* the SocketHandle is dropped, and its Socket with it.
DropHandle ==
    /\ sk.handle.kind # "none"
    /\ sk' = IF sk.handle.kind = "borrow"
             THEN [sk EXCEPT !.handle = NoHandle]
             ELSE [Closed(sk) EXCEPT !.handle = NoHandle]

\* The engine is dropped (not while it is borrowed), and its Socket with it.
DropEngine ==
    /\ sk.engine.alive
    /\ sk.handle.kind # "borrow"
    /\ sk' = [Closed(sk) EXCEPT !.engine.alive = FALSE]

\* Other code of the process opens a file: the kernel gives it the lowest
\* free number, which may be the one just closed.
OtherOpens ==
    /\ sk.fd = "closed"
    /\ sk.engine.alive \/ sk.handle.kind = "copy"
    /\ sk' = [sk EXCEPT !.fd = "other"]

(***************************************************************************)
(* The CNI plugin of src/cni/src/command: AddCommand::run and              *)
(* DeleteCommand::run, called by the container runtime, against the        *)
(* allocator of the node's agent (ip_store, through GET and PUT).          *)
(***************************************************************************)
Containers == {"c1", "c2"}

\* The subnet of the CNI configuration, the node's pod CIDR.
CniSubnet == Text(<<10, 244, 0, 0>>) \o <<"/", "2", "9">>

\* A container the plugin has not been called for.  state: "none", "added"
\* (ADD returned Ok), "add_failed" (ADD returned an error), "deleted" (DEL
\* returned Ok and the runtime removed the namespace).  got is the body of
\* the GET of its ADD (history), addr the address on its interface, failed
\* (history) whether a step of its ADD or DEL has failed.
NoPod ==
    [state |-> "none", symlink |-> FALSE, link |-> FALSE, addr |-> <<>>, got |-> <<>>,
     failed |-> FALSE]

FreshCni == [up |-> FALSE, pods |-> [id \in Containers |-> NoPod]]

\* The agent's server is started on an absent store file.
CniStart ==
    /\ ~cni.up
    /\ ip_store' = Ipam_new(CniSubnet, NoStoreFile)
    /\ cni' = [cni EXCEPT !.up = TRUE]

\* AddCommand::run.  get_ok: the GET is answered; symlink_ok: the symlink of
\* the namespace can be made; link_ok: the ip commands that make and move
\* the veth pair succeed; addr_ok: `ip addr add` succeeds.  run_command logs
\* a failed command and returns Ok(()).
AddCommand_run(id) ==
    \E get_ok, symlink_ok, link_ok, addr_ok \in BOOLEAN :
        /\ cni.up
        /\ cni.pods[id].state = "none"
        /\ LET r == IF get_ok THEN pop_first(ip_store) ELSE IpamRes(ip_store, TRUE, <<>>)
               container_ip == r.body
               made == symlink_ok /\ ~cni.pods[id].symlink
               link == made /\ link_ok
               addr == IF link /\ addr_ok /\ parse_IpAddr(container_ip).ok
                       THEN container_ip ELSE <<>>
           IN  /\ ip_store' = r.store
               /\ cni' = [cni EXCEPT ![ "pods" ][id] =
                     IF r.panicked
                     THEN [@ EXCEPT !.state = "add_failed", !.failed = TRUE]
                     ELSE IF ~made
                     THEN [@ EXCEPT !.state = "add_failed", !.got = container_ip,
                                    !.failed = TRUE]
                     ELSE [state |-> "added", symlink |-> TRUE, link |-> link,
                           addr |-> addr, got |-> container_ip,
                           failed |-> ~link_ok \/ ~addr_ok]]

\* DeleteCommand::run, and the runtime removing the namespace once DEL has
\* returned Ok.  netns_ok: the namespace file opens and setns succeeds;
\* put_ok: the PUT is sent and answered.  A PUT with an empty {ip} segment
\* matches no route of the server.
DeleteCommand_run(id) ==
    \E netns_ok, put_ok \in BOOLEAN :
        /\ cni.up
        /\ cni.pods[id].state \in {"added", "add_failed"}
        /\ LET pod == cni.pods[id]
               container_ip == IF pod.link THEN Some(pod.addr) ELSE None(<<>>)
               sends == netns_ok /\ container_ip.some
               r == IF sends /\ put_ok /\ container_ip.val # <<>>
                    THEN insert(ip_store, container_ip.val)
                    ELSE IpamRes(ip_store, FALSE, <<>>)
               ok == netns_ok /\ (sends => put_ok)
           IN  /\ ip_store' = r.store
               /\ cni' = [cni EXCEPT ![ "pods" ][id] =
                     IF ok THEN [@ EXCEPT !.state = "deleted", !.link = FALSE, !.addr = <<>>]
                     ELSE [@ EXCEPT !.failed = TRUE]]

\* A host that has its uplink and nothing of the overlay yet.
FreshKernel ==
    [links |-> ("eth0" :> [index |-> 1, hw_addr |-> "02:e0"]),
     up |-> {}, forwarding |-> {}, addrs |-> {}, routes |-> <<>>, neighs |-> <<>>]

InitHost ==
    /\ kernel = FreshKernel
    /\ prog = FreshProg
    /\ agent = FreshAgent

InitNat ==
    /\ NET_CONFIG_MAP = LoadedConfig
    /\ NODE_MAP = LoadedNodes
    /\ SNAT_IPV4_MAP = <<>>
    /\ last = NoPacket
    /\ lastNatOf = <<>>
    /\ tracked = NoFlow

InitReq ==
    /\ seq = 0
    /\ rcvQueue = <<>>
    /\ call = IdleCall
    /\ sentLog = <<>>

InitPort == natPort = NoPort

InitBpf == bpf = LoadedBpf

InitCtl == ctl = FreshCtl

InitSk == sk = FreshSk

InitCni == cni = FreshCni

Init == InitNat /\ InitReq /\ InitPort /\ InitHost /\ InitIpam /\ InitSock /\ InitFrame /\ InitAttr /\ InitRoute /\ InitBpf /\ InitCtl /\ InitSk /\ InitCni

NextNat == tc_egress \/ tc_ingress

SpecNat == Init /\ [][NextNat]_vars

NextChecksums == tc_egress_checksums \/ tc_ingress_checksums

SpecChecksums == Init /\ [][NextChecksums]_vars

NextReq ==
    \/ /\ \E res_type \in {0, RTM_NEWADDR} :
            \E replies \in KernelReplies(next_seq_of(seq)) : Request(res_type, replies)
       /\ UNCHANGED reqOthers
    \/ RequestSendFails /\ UNCHANGED reqOthers
    \/ Recv /\ UNCHANGED reqOthers
    \/ RecvArriving /\ UNCHANGED reqOthers
    \/ RecvFails /\ UNCHANGED reqOthers

SpecReq == Init /\ [][NextReq]_vars

NextOverlay ==
    \/ SetupBridge /\ UNCHANGED hostOthers
    \/ SetupVxlan /\ UNCHANGED hostOthers
    \/ InitializeOverlay /\ UNCHANGED hostOthers
    \/ \E node_ip \in overlay_peers : TaskRoute(node_ip) /\ UNCHANGED hostOthers
    \/ \E node_ip \in overlay_peers : TaskNeigh(node_ip) /\ UNCHANGED hostOthers
    \/ \E node_ip \in overlay_peers : TaskFdb(node_ip) /\ UNCHANGED hostOthers
    \/ Rerun /\ UNCHANGED hostOthers

SpecOverlay == Init /\ [][NextOverlay]_vars

NextMain ==
    \/ Main /\ UNCHANGED hostOthers
    \/ Restart /\ UNCHANGED hostOthers

SpecMain == Init /\ [][NextMain]_vars

NextIpam ==
    \/ Start /\ UNCHANGED ipamOthers
    \/ Accept /\ UNCHANGED ipamOthers
    \/ \E i \in DOMAIN requests : RunHandler(i) /\ UNCHANGED ipamOthers
    \/ Signal /\ UNCHANGED ipamOthers
    \/ ServeReturns /\ UNCHANGED ipamOthers

SpecIpam == Init /\ [][NextIpam]_vars

NextSock ==
    \/ \E s \in DOMAIN Sockets : SockEstablished(s) /\ UNCHANGED sockOthers
    \/ \E s \in DOMAIN Sockets : SockStateChange(s) /\ UNCHANGED sockOthers

SpecSock == Init /\ [][NextSock]_vars

NextFrame ==
    \/ MsgNew /\ UNCHANGED frameOthers
    \/ MsgAdd /\ UNCHANGED frameOthers
    \/ MsgSerialize /\ UNCHANGED frameOthers
    \/ MsgParse /\ UNCHANGED frameOthers

SpecFrame == Init /\ [][NextFrame]_vars

NextAttr ==
    \/ AttrNew /\ UNCHANGED attrOthers
    \/ AttrAddAttribute /\ UNCHANGED attrOthers
    \/ AttrWithAttrs /\ UNCHANGED attrOthers
    \/ AttrFromVxlan /\ UNCHANGED attrOthers
    \/ AttrSerialize /\ UNCHANGED attrOthers

SpecAttr == Init /\ [][NextAttr]_vars

NextRoute == RouteHandleCall /\ UNCHANGED routeOthers

SpecRoute == Init /\ [][NextRoute]_vars

\* The host when Bpf::load has returned: nothing attached, the maps empty.
InitLoad ==
    /\ NET_CONFIG_MAP = <<>>
    /\ NODE_MAP = {}
    /\ SNAT_IPV4_MAP = <<>>
    /\ last = NoPacket
    /\ lastNatOf = <<>>
    /\ tracked = NoFlow
    /\ bpf = FreshBpf
    /\ InitReq /\ InitPort /\ InitHost /\ InitIpam /\ InitSock /\ InitFrame /\ InitAttr
    /\ InitRoute /\ InitCtl /\ InitSk /\ InitCni

NextLoad ==
    \/ (AttachIngress /\ UNCHANGED loadOthers)
    \/ (AttachEgress /\ UNCHANGED loadOthers)
    \/ (InsertHostIp /\ UNCHANGED loadOthers)
    \/ (InsertClusterCidr /\ UNCHANGED loadOthers)
    \/ (InsertNode /\ UNCHANGED loadOthers)
    \/ (LoadFails /\ UNCHANGED loadOthers)
    \/ LoaderEgress
    \/ LoaderIngress

SpecLoad == InitLoad /\ [][NextLoad]_vars

NextCtl ==
    \/ (ApplyObject /\ UNCHANGED ctlOthers)
    \/ (Reconcile /\ UNCHANGED ctlOthers)

SpecCtl == Init /\ [][NextCtl]_vars

NextSk ==
    \/ (SocketHandle_new /\ UNCHANGED skOthers)
    \/ (handle_link /\ UNCHANGED skOthers)
    \/ (handle_route /\ UNCHANGED skOthers)
    \/ (HandleRequest /\ UNCHANGED skOthers)
    \/ (EngineRequest /\ UNCHANGED skOthers)
    \/ (DropHandle /\ UNCHANGED skOthers)
    \/ (DropEngine /\ UNCHANGED skOthers)
    \/ (OtherOpens /\ UNCHANGED skOthers)

SpecSk == Init /\ [][NextSk]_vars

NextCni ==
    \/ (CniStart /\ UNCHANGED cniRest)
    \/ (\E id \in Containers : AddCommand_run(id) /\ UNCHANGED cniRest)
    \/ (\E id \in Containers : DeleteCommand_run(id) /\ UNCHANGED cniRest)

SpecCni == Init /\ [][NextCni]_vars

NextPort == nat_port

SpecPort == Init /\ [][NextPort]_vars

(***************************************************************************)
(* Properties of the classifier programs (checked under SpecNat).          *)
(***************************************************************************)
\* The packet's Ethernet, IPv4 and TCP headers load, and it is TCP over IPv4.
IsTcp4(pkt) ==
    /\ pkt.len >= EthHdrLEN + Ipv4HdrLEN + TcpHdrLEN
    /\ pkt.ether_type = "Ipv4"
    /\ pkt.proto = "Tcp"

InClusterCidr(ip) ==
    LET c == NET_CONFIG_MAP[CLUSTER_CIDR_KEY] IN
    And32(ip, c.subnet_mask) = And32(c.ip, c.subnet_mask)

\* The packets the egress program is to NAT.
NatEligible(pkt) ==
    /\ IsTcp4(pkt)
    /\ ~InClusterCidr(from_be32(pkt.dst_addr))
    /\ from_be32(pkt.dst_addr) \notin NODE_MAP
    /\ from_be32(pkt.src_addr) \notin NODE_MAP

\* The entries of SNAT_IPV4_MAP that map a post-NAT 4-tuple of the flow to
\* the flow's origin.
EntriesOf(flow) ==
    { k \in DOMAIN SNAT_IPV4_MAP :
        /\ k.src_ip = NET_CONFIG_MAP[HOST_IP_KEY].ip
        /\ k.dst_ip = flow.dst_ip
        /\ k.dst_port = flow.dst_port
        /\ SNAT_IPV4_MAP[k] = OriginValue(flow.src_ip, flow.src_port) }

\* C1: every TCP/IPv4 packet seen by tc_egress whose destination is neither
\* in cluster_cidr nor in NODE_MAP and whose source is not in NODE_MAP leaves
\* (PASS) with source address host_ip and a source port P, and afterwards
\* SNAT_IPV4_MAP maps {host_ip, dst_ip, P, dst_port} to {src_ip, 0, src_port}.
C1_EgressNatsAndRecords ==
    (last.prog = "egress" /\ NatEligible(last.in)) =>
        LET f == Flow(last.in)
            k == NatKey(HostIp, f.dst_ip, from_be16(last.out.source), f.dst_port)
        IN  /\ last.verdict = TC_ACT_PIPE
            /\ from_be32(last.out.src_addr) = HostIp
            /\ k \in DOMAIN SNAT_IPV4_MAP
            /\ SNAT_IPV4_MAP[k] = OriginValue(f.src_ip, f.src_port)

\* The reverse key of a reply: the post-NAT 4-tuple it answers.
AnsweredTuple(pkt) ==
    NatKey(from_be32(pkt.dst_addr), from_be32(pkt.src_addr),
           from_be16(pkt.dest), from_be16(pkt.source))

C10_ExactlyOneEntryPerFlow ==
    tracked # NoFlow => Cardinality(EntriesOf(tracked)) = 1

\* The post-NAT 4-tuples that packets of two different origins were NATed to.
CollidedKeys == { k \in DOMAIN lastNatOf : lastNatOf[k].over }

PassThroughClass(pkt) ==
    \/ pkt.ether_type # "Ipv4"
    \/ pkt.proto # "Tcp"
    \/ InClusterCidr(from_be32(pkt.dst_addr))
    \/ from_be32(pkt.dst_addr) \in NODE_MAP
    \/ from_be32(pkt.src_addr) \in NODE_MAP

\* Every header the program reads to classify the packet is in the packet.
HeadersLoad(pkt) ==
    /\ CanLoad(pkt, 0, EthHdrLEN)
    /\ pkt.ether_type = "Ipv4" =>
          /\ CanLoad(pkt, EthHdrLEN, Ipv4HdrLEN)
          /\ pkt.proto = "Tcp" => CanLoad(pkt, EthHdrLEN + Ipv4HdrLEN, TcpHdrLEN)

\* What "handed on untouched" means for the step that handled last'.in.
LeftAlone ==
    /\ last'.verdict = TC_ACT_PIPE
    /\ last'.out = last'.in
    /\ SNAT_IPV4_MAP' = SNAT_IPV4_MAP

InPortRange(p) == p >= SNAT_PORT_START /\ p <= SNAT_PORT_END

\* C13: the NAT source port always lies in [30000, 60000]; an original
\* source port in [30000, 60000], both bounds included, is kept unchanged,
\* and any other original port (29999 and 60001 included) is replaced by a
\* port inside that range.
C13_NatPortInRange ==
    natPort.called =>
        /\ InPortRange(natPort.out)
        /\ InPortRange(natPort.val) => natPort.out = natPort.val
        /\ ~InPortRange(natPort.val) => natPort.out # natPort.val

\* The port just above the range was remapped to the top of what the
\* remapping reaches.
C13_Witness ==
    /\ natPort.called
    /\ natPort.val = SNAT_PORT_END + 1
    /\ natPort.out = SNAT_PORT_END - 1

(***************************************************************************)
(* Properties of the overlay programmer (checked under SpecOverlay).       *)
(***************************************************************************)
TaskFailed(p) == prog.tasks[p].pc = "failed"
TaskDone(p) == prog.tasks[p].pc = "done"

\* C14: when setup_bridge, setup_vxlan and the per-peer route/ARP/FDB
\* programming are run again with the same inputs on the kernel state left
\* by a run that succeeded, and the kernel refuses no call for a reason of
\* its own, the second run meets no error and the links, addresses, routes
\* and neighbor entries stay exactly those the first run left.
C14_SecondRunIdempotent ==
    (prog.pass > 1 /\ prog.prev_ok /\ prog.clean) =>
        /\ prog.pc # "failed"
        /\ \A p \in DOMAIN prog.tasks : ~TaskFailed(p)
        /\ kernel = prog.after

\* A second run went through to the end of every peer task.
C14_Witness ==
    /\ prog.pass > 1 /\ prog.prev_ok /\ prog.clean
    /\ prog.pc = "tasks"
    /\ DOMAIN prog.tasks = overlay_peers
    /\ \A p \in DOMAIN prog.tasks : TaskDone(p)
    /\ DOMAIN kernel.routes # {}
    /\ DOMAIN kernel.neighs # {}

\* C16: peer programming runs as one task per node other than the host,
\* each task on a netlink socket of its own; a task fails only through a
\* failure of one of its own calls, a task that has not ended can always
\* take its next step whatever happened to the others, and
\* initialize_overlay has returned Ok whatever the tasks do.
C16_PeerTasksIndependent ==
    /\ prog.pc = "tasks" =>
          DOMAIN prog.tasks =
              { node_routes[i].ip : i \in DOMAIN node_routes } \ {host_ip}
    /\ prog.pc # "tasks" => prog.tasks = NoTasks
    /\ \A p \in DOMAIN prog.tasks :
          /\ prog.tasks[p].sock # 0 =>
                /\ prog.tasks[p].sock # prog.sock
                /\ \A q \in DOMAIN prog.tasks \ {p} : prog.tasks[q].sock # prog.tasks[p].sock
          /\ TaskFailed(p) => prog.tasks[p].faulted
          /\ (~TaskFailed(p) /\ ~TaskDone(p)) =>
                ENABLED (TaskRoute(p) \/ TaskNeigh(p) \/ TaskFdb(p))

\* One peer's task failed and another's ran to completion.
C16_Witness ==
    /\ prog.pc = "tasks"
    /\ \E p, q \in DOMAIN prog.tasks :
          /\ TaskFailed(p) /\ prog.tasks[p].faulted
          /\ TaskDone(q) /\ prog.tasks[q].sock # prog.tasks[p].sock

(***************************************************************************)
(* Properties of the agent's bootstrap (checked under SpecMain).           *)
(***************************************************************************)
\* C15: in main, a "File exists" (EEXIST) result of an add operation -
\* bridge address, vxlan address or peer route - is not raised, so that a
\* start on a host an earlier start has programmed, with no call refused by
\* the kernel, gets to loading the program; any other error of one of those
\* add operations ends main with an error.
C15_ExistsCaughtOthersAbort ==
    agent.pc \in {"load", "failed"} =>
        /\ (agent.pc = "failed" /\ agent.at \in AddOps) => agent.err # EEXIST
        /\ (agent.programmed /\ agent.fault = NoFault) => agent.pc = "load"
        /\ (agent.fault \in AddOps) => agent.pc = "failed"

(***************************************************************************)
(* Properties of the request engine (checked under SpecReq).               *)
(***************************************************************************)
Returned == call.state \in {"ok", "err"}
PayloadsOf(msgs) == [i \in DOMAIN msgs |-> msgs[i].payload]
ForInFlight(m) == m.nlmsg_seq = call.next_seq /\ m.nlmsg_pid = LocalPid
HasMulti(m) == m.nlmsg_flags = NLM_F_MULTI
IsAnswer(m) == m.nlmsg_type \in {RTM_NEWLINK, RTM_NEWADDR}
QueuedMsgs == UNION { { rcvQueue[i].msgs[j] : j \in DOMAIN rcvQueue[i].msgs } : i \in DOMAIN rcvQueue }

\* C3: the sequence counter starts at 0 and every call of request() stamps
\* its message with a sequence number one larger than the call before, so no
\* two requests of one handle carry the same sequence number.
C3_SequenceNumbers ==
    /\ \A i \in DOMAIN sentLog :
          sentLog[i] = (IF i = 1 THEN 0 ELSE sentLog[i - 1]) + 1
    /\ \A i, j \in DOMAIN sentLog : i # j => sentLog[i] # sentLog[j]
    /\ call.state # "idle" => call.next_seq = sentLog[Len(sentLog)]

C3_Witness == Len(sentLog) >= 2 /\ call.state = "ok"

\* C4: request() never returns a payload taken from a message whose sequence
\* number or port id differs from the request in flight, and such a message
\* never ends or fails the request.
C4_MismatchedNeverUsed ==
    /\ \A i \in DOMAIN call.src : ForInFlight(call.src[i])
    /\ call.state = "ok" => call.res = PayloadsOf(call.src)
    /\ call.endedBy # NoMsg => ForInFlight(call.endedBy)

C4_Witness ==
    /\ call.state = "ok"
    /\ call.stale > 0
    /\ call.skipped > 1
    /\ Len(call.res) > 0

\* C5: a matching NLMSG_ERROR message with errno 0 makes request() return Ok
\* with the payloads captured so far; with any other errno it makes request()
\* fail with that errno and the bytes after it, returning no payload.
C5_ErrorMessage ==
    /\ \A i \in DOMAIN call.src : call.src[i].nlmsg_type # NLMSG_ERROR
    /\ (Returned /\ call.endedBy.nlmsg_type = NLMSG_ERROR) =>
          IF call.endedBy.errno = 0
          THEN call.state = "ok" /\ call.res = PayloadsOf(call.src)
          ELSE /\ call.state = "err" /\ call.kind = "kernel"
               /\ call.err.errno = -call.endedBy.errno
               /\ call.err.trailing = <<16, call.endedBy.nlmsg_seq>>
               /\ call.res = <<>>

C5_Witness ==
    /\ call.state = "err"
    /\ call.endedBy.nlmsg_type = NLMSG_ERROR
    /\ call.err.errno = EEXIST
    /\ Len(call.captured) > 0

\* C6, as claimed: a matching NLMSG_DONE message ends the response, and
\* request() returns Ok with the payloads captured so far.
C6_DoneReturnsOk ==
    (Returned /\ call.endedBy.nlmsg_type = NLMSG_DONE) =>
        call.state = "ok" /\ call.res = PayloadsOf(call.src)

\* C6, amended: a matching NLMSG_DONE message is never taken as an answer;
\* when its first 4 payload bytes decode to 0 request() returns Ok with the
\* payloads captured so far, otherwise request() fails with that errno.
C6_DoneReturnsOkWhenZero ==
    /\ \A i \in DOMAIN call.src : call.src[i].nlmsg_type # NLMSG_DONE
    /\ (Returned /\ call.endedBy.nlmsg_type = NLMSG_DONE) =>
          IF call.endedBy.errno = 0
          THEN call.state = "ok" /\ call.res = PayloadsOf(call.src)
          ELSE /\ call.state = "err" /\ call.kind = "kernel"
               /\ call.err.errno = -call.endedBy.errno
               /\ call.res = <<>>

C6_Witness ==
    /\ call.state = "ok"
    /\ call.endedBy.nlmsg_type = NLMSG_DONE
    /\ Len(call.res) > 1

\* C7, as claimed: when a matching message without the MULTI flag ends the
\* response, every matching message of the expected type in the same
\* datagram, those after it included, is captured.
C7_RestOfDatagramCaptured ==
    (call.state = "ok" /\ IsAnswer(call.endedBy) /\ ~HasMulti(call.endedBy)) =>
        call.missed = 0

\* C7, amended: request() returns at the first captured message without the
\* MULTI flag: that message's payload is the last one returned, every payload
\* before it comes from a message with the MULTI flag, and the messages after
\* it in the datagram are not looked at.
C7_ReturnsAtFirstNonMulti ==
    /\ \A i \in DOMAIN call.src : i < Len(call.src) => HasMulti(call.src[i])
    /\ call.state = "recv" => \A i \in DOMAIN call.src : HasMulti(call.src[i])
    /\ (call.state = "ok" /\ IsAnswer(call.endedBy)) =>
          /\ ~HasMulti(call.endedBy)
          /\ call.src # <<>>
          /\ call.src[Len(call.src)] = call.endedBy
          /\ call.res = PayloadsOf(call.src)

C7_Witness ==
    /\ call.state = "ok"
    /\ IsAnswer(call.endedBy)
    /\ call.missed > 0
    /\ Len(call.res) > 1

\* C8, as claimed: when request N returns, every reply datagram the kernel
\* produced for request N has been read from the socket.
C8_RepliesReadAtReturn ==
    call.state = "ok" => \A m \in QueuedMsgs : m.nlmsg_seq # call.next_seq

\* C8, amended: request N+1 is sent only after request N has returned; the
\* datagrams unread at that moment (such as the acknowledgment that follows
\* the RTM_NEWLINK answer to a GETLINK sent with the ACK flag) carry only
\* sequence numbers below that of request N+1, which reads them first.
C8_LeftoversAreStale ==
    /\ call.state = "recv" => call.next_seq = seq
    /\ \A m \in QueuedMsgs : m.nlmsg_seq <= seq
    /\ call.state = "recv" =>
          \A i \in DOMAIN rcvQueue :
              i <= call.stale - call.nrecv =>
                  \A j \in DOMAIN rcvQueue[i].msgs :
                      rcvQueue[i].msgs[j].nlmsg_seq < call.next_seq

C8_Witness ==
    /\ call.state = "ok"
    /\ call.prev = "ok"
    /\ call.stale > 0
    /\ call.skipped > 0
    /\ call.endedBy.nlmsg_type = RTM_NEWLINK
    /\ \E m \in QueuedMsgs : m.nlmsg_seq = call.next_seq

\* C9: a datagram whose sender port id is not 0 makes request() fail at once,
\* returning no payload; the handle stays usable: the next request() carries
\* the next sequence number and returns the kernel's answer to it.
C9_WrongPeerFailsHandleUsable ==
    /\ call.lastFrom # PID_KERNEL =>
          /\ call.state = "err" /\ call.kind = "peer"
          /\ call.res = <<>>
          /\ call.endedBy = NoMsg
    /\ call.prev = "peer" =>
          /\ Len(sentLog) >= 2
          /\ call.next_seq = sentLog[Len(sentLog) - 1] + 1
          /\ call.state = "ok" =>
                /\ call.res = PayloadsOf(call.src)
                /\ \A i \in DOMAIN call.src : ForInFlight(call.src[i])
                /\ ForInFlight(call.endedBy)

C9_Witness ==
    /\ call.prev = "peer"
    /\ call.state = "ok"
    /\ call.endedBy.nlmsg_type = NLMSG_ERROR
    /\ Len(call.res) > 0


(***************************************************************************)
(* Properties of the address allocator and its server (checked under       *)
(* SpecIpam).                                                              *)
(***************************************************************************)
\* The 32-bit number of an address.
Num(ip) == ((ip[1] * 256 + ip[2]) * 256 + ip[3]) * 256 + ip[4]

\* The GET requests whose handler has run, as places in served.
ServedGets == { j \in DOMAIN served : served[j].method = "GET" }

\* C17: every GET /ipam/ip whose handler has run was answered with status
\* 200; from a non-empty free set it took the numerically smallest address
\* out of the set and returned it as the body; from an empty free set it
\* returned an empty body and left the set empty.
C17_GetPopsSmallest ==
    \A j \in ServedGets :
        LET e == served[j]
            r == requests[e.id]
        IN /\ r.status = 200
           /\ e.before = {} => (r.body = <<>> /\ e.after = {})
           /\ e.before # {} =>
                \E a \in e.before :
                    /\ \A b \in e.before : Num(a) <= Num(b)
                    /\ parse_IpAddr(r.body) = [ok |-> TRUE, ip |-> a]
                    /\ e.after = e.before \ {a}

\* GET j returned the address that GET i returned before it.
SameAddress(i, j) ==
    /\ i < j
    /\ served[i].body # <<>>
    /\ served[i].body = served[j].body

\* A PUT of the address that GET i returned was served between i and j.
PutBetween(i, j) ==
    \E k \in (i + 1)..(j - 1) :
        /\ served[k].method = "PUT"
        /\ ~served[k].panicked
        /\ parse_IpAddr(served[k].ip) = parse_IpAddr(served[i].body)

\* C18: whatever the order in which the handlers of concurrent GET and PUT
\* requests run, two GET requests return the same address only if a PUT of
\* that address was served between them.
C18_NoDoubleAllocation ==
    \A i, j \in ServedGets : SameAddress(i, j) => PutBetween(i, j)

\* An address was returned twice with its PUT in between, by handlers that
\* ran in another order than their requests arrived.
C18_Witness ==
    /\ \E i, j \in ServedGets : SameAddress(i, j) /\ PutBetween(i, j)
    /\ \E i, j \in DOMAIN served : i < j /\ served[i].id > served[j].id

\* The server runs on an allocator that Ipam::new loaded from a store file
\* that flush had written.
LoadedFlushed == server.pc \in {"serving", "draining"} /\ server.wrote

\* C19: an allocator created on the store file that flush has written
\* starts with exactly the free set that was flushed; so until an address
\* outside that set is PUT, no GET returns it.
C19_RestartKeepsFreeSet ==
    LoadedFlushed =>
        /\ served = <<>> => ip_store.set = server.flushed
        /\ \A j \in ServedGets : served[j].body # <<>> =>
               \/ parse_IpAddr(served[j].body).ip \in server.flushed
               \/ \E k \in 1..(j - 1) :
                      /\ served[k].method = "PUT"
                      /\ parse_IpAddr(served[k].ip) = parse_IpAddr(served[j].body)

\* The server was started again after a flush that left out an address
\* allocated before it, and has served a GET since.
C19_Witness ==
    /\ LoadedFlushed
    /\ server.flushed # {}
    /\ hosts_of(server.pod_cidr) \ server.flushed # {}
    /\ \E j \in ServedGets : ~served[j].panicked /\ served[j].body # <<>>

\* The shutdown signal has been received.
Signalled == server.pc \in {"draining", "stopped", "panicked"}

\* start has ended after the shutdown signal.
StartEnded == server.pc \in {"stopped", "panicked"}

\* C20: once the shutdown signal has been received the server accepts no
\* further request; start ends only after every request in flight has
\* finished, and it ends with the free set written to the store file, as
\* the requests served have left it.
C20_DrainThenFlush ==
    /\ Signalled => Len(requests) = server.at_signal
    /\ StartEnded =>
        /\ Drained(requests)
        /\ server.pc = "stopped"
        /\ store_file.exists
        /\ load(store_file).set = ip_store.set
        /\ served # <<>> => ip_store.set = served[Len(served)].after

(***************************************************************************)
(* Properties of the sock-ops program (checked under SpecSock).            *)
(***************************************************************************)
\* The key under which the established callback of socket s writes it.
KeyOf(s) == extract_sock_key_from(SockOpsContext(s, "STATE_CB", "CLOSE"))

\* C21: once the state callback of a socket that the program inserted has
\* fired with a close state, SOCK_OPS_MAP holds no entry for that socket.
C21_ClosedSocketsRemoved ==
    \A s \in DOMAIN Sockets :
        (socks[s].inserted /\ socks[s].closed_cb) => KeyOf(s) \notin DOMAIN SOCK_OPS_MAP

(***************************************************************************)
(* Properties of the message frame (checked under SpecFrame).              *)
(***************************************************************************)
\* The byte vectors added to the message, one after the other.
RECURSIVE Concat(_)
Concat(chunks) == IF chunks = <<>> THEN <<>> ELSE Head(chunks) \o Concat(Tail(chunks))

\* C22: the serialization of a Message made by new() and any add calls is
\* its 16-byte header followed by the bytes added, in order; the length
\* field of the output and header.nlmsg_len are both the number of bytes of
\* the output, 16 plus what was added.
C22_SerializeFramesAddedBytes ==
    frame.pc = "serialized" =>
        LET total == NLMSG_HDRLEN + RunsLen(Concat(frame.added)) IN
        /\ Len(frame.out.head) = NLMSG_HDRLEN
        /\ SubSeq(frame.out.head, 5, 16) = SubSeq(bincode_serialize(frame.msg.header), 5, 16)
        /\ frame.out.body = Concat(frame.added)
        /\ u32_from_le(SubSeq(frame.out.head, 1, 4)) = total
        /\ frame.msg.header.nlmsg_len = total

\* A message of several add calls and more than 65535 bytes was serialized.
C22_Witness ==
    /\ frame.pc = "serialized"
    /\ Len(frame.added) >= 2
    /\ RunsLen(frame.out.body) > 65535

\* C23: parsing a buffer of N well-formed messages back to back yields
\* these N messages in order, each with the payload of its declared length
\* less 16, and leaves nothing of the buffer.
C23_ParseYieldsAllMessages ==
    frame.pc = "parsed" =>
        /\ ~frame.parsed.panicked
        /\ frame.parsed.messages = frame.sent
        /\ \A i \in DOMAIN frame.parsed.messages :
               Len(frame.parsed.messages[i].payload)
                   = frame.sent[i].header.nlmsg_len - NLMSG_HDRLEN
        /\ frame.parsed.rest = <<>>

(***************************************************************************)
(* Properties of the attribute codec (checked under SpecAttr).             *)
(***************************************************************************)
\* C24: serializing an attribute tree and parsing the bytes yields the tree
\* again: the same types, lengths, payloads and nesting.
C24_AttrRoundTrip ==
    bench.pc = "serialized" =>
        /\ ~bench.parsed.panicked
        /\ bench.parsed.attrs = <<bench.stack[1]>>

\* The number of bytes of an attribute on the wire: its header, its payload
\* padded to four bytes, and its children.
RECURSIVE Emitted(_)
Emitted(a) ==
    LET RECURSIVE Sum(_)
        Sum(attrs) == IF attrs = <<>> THEN 0 ELSE Emitted(Head(attrs)) + Sum(Tail(attrs))
    IN align_of(RT_ATTR_HDR_SIZE + Len(a.payload), RTA_ALIGNTO) + Sum(a.attributes)

\* The bytes before child i of a, counted from the start of a.
ChildOffset(a, i) ==
    LET RECURSIVE Sum(_)
        Sum(attrs) == IF attrs = <<>> THEN 0 ELSE Emitted(Head(attrs)) + Sum(Tail(attrs))
    IN align_of(RT_ATTR_HDR_SIZE + Len(a.payload), RTA_ALIGNTO)
           + Sum(SubSeq(a.attributes, 1, i - 1))

\* In buf, where attribute a starts after off bytes, the length field of a
\* is the number of bytes emitted for a if a has children and the unpadded
\* length of its header and payload if it has none; and so for its children.
RECURSIVE LengthFieldsOk(_, _, _)
LengthFieldsOk(a, buf, off) ==
    /\ u16_from_le(SubSeq(buf, off + 1, off + 2)) =
           IF a.attributes # <<>> THEN Emitted(a) ELSE RT_ATTR_HDR_SIZE + Len(a.payload)
    /\ \A i \in DOMAIN a.attributes :
           LengthFieldsOk(a.attributes[i], buf, off + ChildOffset(a, i))

\* C25: in the bytes of an attribute with children the parent's length
\* field is the number of bytes emitted for the parent (header, padded
\* payload, children), and the length field of a child without children
\* is its unpadded length.
C25_ParentLengthCoversChildren ==
    (bench.pc = "serialized" /\ bench.stack[1].attributes # <<>>) =>
        /\ Len(bench.out) = Emitted(bench.stack[1])
        /\ LengthFieldsOk(bench.stack[1], bench.out, 0)

\* A parent with a padded payload was serialized, with a child of a padded
\* payload and a child that has a child itself.
C25_Witness ==
    /\ bench.pc = "serialized"
    /\ Len(bench.stack[1].payload) % 4 # 0
    /\ \E i \in DOMAIN bench.stack[1].attributes :
           /\ bench.stack[1].attributes[i].attributes = <<>>
           /\ Len(bench.stack[1].attributes[i].payload) % 4 # 0
    /\ \E i \in DOMAIN bench.stack[1].attributes :
           bench.stack[1].attributes[i].attributes # <<>>

(***************************************************************************)
(* Properties of the route requests (checked under SpecRoute).             *)
(***************************************************************************)
\* The address families of the dst, src and gw a Routing value has.
FamiliesOf(route) ==
    (IF route.dst.some THEN {route.dst.val.addr.v6} ELSE {})
    \cup (IF route.src.some THEN {route.src.val.v6} ELSE {})
    \cup (IF route.gw.some THEN {route.gw.val.v6} ELSE {})

RouteCalled == route_handle.call.proto # 0

\* C26: handle() returns an error for a route whose dst, src and gw are not
\* all of one address family (a V4 dst with a V6 gw among them); the call
\* then sends no request and the socket's sequence counter is what it was.
C26_MixedFamiliesRejected ==
    (RouteCalled /\ Cardinality(FamiliesOf(route_handle.call.route)) > 1)
        => /\ route_handle.call.err \in {"src and dst address family mismatch",
                                         "gw, src and dst address family mismatch"}
           /\ route_handle.sent = <<>>
           /\ route_handle.nsent = route_handle.call.sent_before
           /\ route_handle.seq = route_handle.call.before

\* A V4 dst with a V6 gw and nothing else, refused on a socket that had
\* already made a request.
C26_Witness ==
    /\ RouteCalled
    /\ route_handle.call.route.dst = Some(V4Net)
    /\ route_handle.call.route.gw = Some(V6Addr)
    /\ ~route_handle.call.route.src.some
    /\ ~route_handle.call.route.via.some
    /\ route_handle.call.before = 1
    /\ route_handle.call.err = "gw, src and dst address family mismatch"
    /\ route_handle.seq = 1

\* The rtmsg of the request the last call sent.
SentRouteMessage == RouteMessage_deserialize(route_handle.sent[1].payload)

\* C27: every request handle() sends for RTM_DELROUTE carries scope NOWHERE
\* in its rtmsg, whatever the Routing value.
C27_DeleteCarriesNowhere ==
    (RouteCalled /\ route_handle.call.proto = RTM_DELROUTE /\ route_handle.sent # <<>>)
        => SentRouteMessage.scope = RT_SCOPE_NOWHERE

\* The attributes of the request the last call sent, as they parse.
SentRouteAttrs ==
    RouteAttrs_from(SubSeq(route_handle.sent[1].payload, 13,
                           Len(route_handle.sent[1].payload))).attrs

SentVia == { i \in DOMAIN SentRouteAttrs : SentRouteAttrs[i].rta_type = RTA_VIA }

\* C28: a route with a V4 dst and a via, no src and no gw, is accepted
\* whatever the via's family: the request goes out with family AF_INET in
\* its rtmsg and one RTA_VIA attribute whose payload is the via's family in
\* two bytes, native order, and then the address, 16 bytes for a V6 via and
\* 4 for a V4 one.
C28_ViaOfOtherFamilyAccepted ==
    (/\ RouteCalled
     /\ route_handle.call.route.dst = Some(V4Net)
     /\ route_handle.call.route.via.some
     /\ ~route_handle.call.route.src.some
     /\ ~route_handle.call.route.gw.some)
        => /\ route_handle.call.err \in {"", "kernel"}
           /\ Len(route_handle.sent) = 1
           /\ route_handle.seq = route_handle.call.before + 1
           /\ SentRouteMessage.family = AF_INET
           /\ Cardinality(SentVia) = 1
           /\ \A i \in SentVia :
                 LET via_addr == route_handle.call.route.via.val.addr
                     fam == IF via_addr.v6 THEN <<10, 0>> ELSE <<2, 0>>
                 IN /\ SentRouteAttrs[i].payload = fam \o via_addr.octets
                    /\ Len(SentRouteAttrs[i].payload) = IF via_addr.v6 THEN 18 ELSE 6
                    /\ SentRouteAttrs[i].rta_len = 4 + Len(SentRouteAttrs[i].payload)

\* The route of test_route_handle_via added: 192.168.0.0/24 via 2001::1.
C28_Witness ==
    /\ RouteCalled
    /\ route_handle.call.proto = RTM_NEWROUTE
    /\ route_handle.call.route.dst = Some(V4Net)
    /\ route_handle.call.route.via = Some(Via_new(V6Addr))
    /\ ~route_handle.call.route.src.some
    /\ ~route_handle.call.route.gw.some
    /\ route_handle.call.err = ""
    /\ \E i \in SentVia : Len(SentRouteAttrs[i].payload) = 18

(***************************************************************************)
(* Properties of the vxlan link data (checked under SpecAttr).             *)
(***************************************************************************)
\* The attributes inside the IFLA_INFO_DATA attribute that was written out.
InfoDataAttrs == RouteAttrs_from(bench.parsed.attrs[1].payload).attrs

\* The payloads of the attributes of one type among them.
InfoDataOf(rta_type) ==
    { InfoDataAttrs[i].payload :
        i \in { j \in DOMAIN InfoDataAttrs : InfoDataAttrs[j].rta_type = rta_type } }

VxlanWritten == bench.pc = "serialized" /\ bench.vxlan.some

\* C29: the IFLA_INFO_DATA subtree from_vxlan builds carries, with flow_based
\* set, IFLA_VXLAN_ID = 0 whatever id is configured and IFLA_VXLAN_FLOWBASED
\* with the value 1; without flow_based it carries the configured id and no
\* IFLA_VXLAN_FLOWBASED.
C29_FlowBasedForcesIdZero ==
    VxlanWritten =>
        /\ Len(bench.parsed.attrs) = 1
        /\ bench.parsed.attrs[1].rta_type = IFLA_INFO_DATA
        /\ IF bench.vxlan.val.flow_based
           THEN /\ InfoDataOf(IFLA_VXLAN_ID) = {<<0, 0, 0, 0>>}
                /\ InfoDataOf(IFLA_VXLAN_FLOWBASED) = {<<1>>}
           ELSE /\ InfoDataOf(IFLA_VXLAN_ID) = {i32_to_ne_bytes(bench.vxlan.val.id)}
                /\ InfoDataOf(IFLA_VXLAN_FLOWBASED) = {}

\* A flow-based vxlan with id 42 and port 8472 written out: id 0, the flag,
\* and the port in network order.
C29_Witness ==
    /\ VxlanWritten
    /\ bench.vxlan.val.flow_based
    /\ bench.vxlan.val.id = 42
    /\ bench.vxlan.val.port = Some(8472)
    /\ InfoDataOf(IFLA_VXLAN_ID) = {<<0, 0, 0, 0>>}
    /\ InfoDataOf(IFLA_VXLAN_PORT) = {<<33, 24>>}

(***************************************************************************)
(* Properties of the checksums (checked under SpecChecksums).              *)
(***************************************************************************)
\* The last packet was a TCP segment that the classifier rewrote and passed.
Rewritten ==
    /\ last.prog # "none"
    /\ last.verdict = TC_ACT_PIPE
    /\ last.out # last.in

\* C30: after an egress or an ingress rewrite of a segment whose IPv4 header
\* checksum and TCP checksum verified, both verify on the segment as it
\* leaves, with its new address and port.
C30_ChecksumsStayValid ==
    (Rewritten /\ Ipv4ChecksumOk(last.in) /\ TcpChecksumOk(last.in))
        => Ipv4ChecksumOk(last.out) /\ TcpChecksumOk(last.out)

\* A reply rewritten to the pod's address and port whose TCP checksum was
\* 0xffff as it arrived, and an egress rewrite that changed the port.
C30_Witness ==
    /\ Rewritten
    /\ Ipv4ChecksumOk(last.in) /\ TcpChecksumOk(last.in)
    /\ last.prog = "ingress"
    /\ last.in.tcp_check = <<255, 255>>
    /\ last.out.dst_addr = to_be32(Pod1)
    /\ last.out.dest = to_be16(4000)
    /\ last.out.check # last.in.check

(***************************************************************************)
(* Further properties of the classifier programs (checked under SpecNat).  *)
(***************************************************************************)
\* C32: tc_egress hands on (PASS) every packet to be NATed whose headers load
\* while the configuration entries are present, however many entries
\* SNAT_IPV4_MAP holds; it drops (SHOT) only packets with a header that does
\* not load.
C32_EgressPassesWhateverTheMapHolds ==
    (/\ last.prog = "egress"
     /\ CLUSTER_CIDR_KEY \in DOMAIN NET_CONFIG_MAP
     /\ HOST_IP_KEY \in DOMAIN NET_CONFIG_MAP)
        => /\ (NatEligible(last.in) /\ HeadersLoad(last.in)) => last.verdict = TC_ACT_PIPE
           /\ last.verdict = TC_ACT_SHOT => ~HeadersLoad(last.in)

\* The packets tc_ingress is to leave alone: not TCP over IPv4, from a
\* cluster or node address, answering no entry of the map, or already
\* addressed to the origin the entry holds.
IngressPassClass(pkt, map) ==
    \/ pkt.ether_type # "Ipv4"
    \/ pkt.proto # "Tcp"
    \/ InClusterCidr(from_be32(pkt.src_addr))
    \/ from_be32(pkt.src_addr) \in NODE_MAP
    \/ AnsweredTuple(pkt) \notin DOMAIN map
    \/ /\ map[AnsweredTuple(pkt)].ip = from_be32(pkt.dst_addr)
       /\ map[AnsweredTuple(pkt)].port = from_be16(pkt.dest)

TaskSteps == <<"route", "mac", "arp", "fdb">>

\* The keys of the neighbor entries one peer's task writes: the ARP entry of
\* the peer's pod network and the FDB entry of the peer's address.
NeighKeysOf(p) ==
    { k \in {<<"AF_INET", prog.vxlan_index, network(PodCidrOf(p))>>,
             <<"AF_BRIDGE", prog.vxlan_index, p>>} : TRUE }

\* The task of peer p did not get the peer's vxlan address.
MacFailed(p) ==
    /\ prog.tasks[p].pc = "failed"
    /\ prog.tasks[p].wrote = <<"route">>
    /\ prog.tasks[p].vxlan_mac = NoMac

\* C34: one peer's task adds the route, obtains the peer's vxlan MAC, writes
\* the ARP entry and writes the FDB entry strictly in that order; no ARP or
\* FDB entry of a peer is written before the task has the peer's MAC, and
\* when the MAC is not obtained the task writes neither entry, whereas the
\* route it added stays.
C34_RouteMacArpFdbInOrder ==
    /\ [](\A p \in DOMAIN prog.tasks :
            /\ prog.tasks[p].wrote = SubSeq(TaskSteps, 1, Len(prog.tasks[p].wrote))
            /\ Len(prog.tasks[p].wrote) >= 3 => prog.tasks[p].vxlan_mac = PeerVxlanMac(p)
            /\ prog.tasks[p].vxlan_mac = NoMac => Len(prog.tasks[p].wrote) <= 1
            /\ MacFailed(p) => PodCidrOf(p) \in DOMAIN kernel.routes)
    /\ [][\A p \in DOMAIN prog.tasks :
            \A k \in NeighKeysOf(p) :
               (/\ prog'.pass = prog.pass
                /\ k \in DOMAIN kernel'.neighs
                /\ (k \notin DOMAIN kernel.neighs \/ kernel'.neighs[k] # kernel.neighs[k]))
                   => /\ prog'.tasks[p].vxlan_mac = PeerVxlanMac(p)
                      /\ kernel'.neighs[k] = PeerVxlanMac(p)
                      /\ PodCidrOf(p) \in DOMAIN kernel.routes
                      /\ (k[1] = "AF_BRIDGE" =>
                            <<"AF_INET", prog.vxlan_index, network(PodCidrOf(p))>>
                                \in DOMAIN kernel.neighs)]_vars

\* One peer's task went through all four steps while another's stopped when
\* the peer's MAC could not be had: its route is there, its entries are not.
C34_Witness ==
    /\ prog.pc = "tasks"
    /\ prog.pass = 1
    /\ \E p, q \in DOMAIN prog.tasks :
          /\ prog.tasks[p].wrote = TaskSteps /\ prog.tasks[p].pc = "done"
          /\ MacFailed(q)
          /\ PodCidrOf(q) \in DOMAIN kernel.routes
          /\ \A k \in NeighKeysOf(q) : k \notin DOMAIN kernel.neighs

(***************************************************************************)
(* Further properties of request() (checked under SpecReq).                *)
(***************************************************************************)
\* The datagram read last came from the kernel and ends with a message that
\* answers the request in flight and lacks the MULTI flag.
ReplyEnded ==
    /\ call.nrecv > 0
    /\ from_kernel(call.lastFrom)
    /\ verify_header(call.lastMsg, call.next_seq, LocalPid)
    /\ check_last_message(call.lastMsg)

\* C35: once a datagram of the kernel has been read that ends with a message
\* matching the request in flight and lacking the MULTI flag, request() has
\* returned (it does not wait in recv for a further datagram), also when
\* that message's type differs from a non-zero expected type and its payload
\* is dropped.
C35_ReturnsWhenReplyEnds == ReplyEnded => call.state # "recv"

\* The same for the messages the type filter lets through.
C35_ReturnsWhenUnfilteredReplyEnds ==
    (ReplyEnded /\ ~is_filtered(call.lastMsg.nlmsg_type, call.res_type))
        => call.state # "recv"

(***************************************************************************)
(* Further properties of the address allocator (checked under SpecIpam).   *)
(***************************************************************************)
\* The PUT requests served whose {ip} segment is not an address.
InvalidPuts ==
    { j \in DOMAIN served : served[j].method = "PUT" /\ ~parse_IpAddr(served[j].ip).ok }

\* C38: a PUT /ipam/ip/{ip} whose segment is not a valid address leaves the
\* free set as it was, and the allocator whole: every GET and PUT served
\* after it completes with its response, and the flush at shutdown writes
\* the store file.
C38_InvalidPutHarmless ==
    /\ \A j \in InvalidPuts :
          /\ served[j].after = served[j].before
          /\ \A k \in (j + 1)..Len(served) :
                ~served[k].panicked /\ requests[served[k].id].status = 200
    /\ (InvalidPuts # {} /\ StartEnded) => (server.pc = "stopped" /\ store_file.exists)

\* The pod CIDR the server was started with.
ServerCidr ==
    LET parts == split(server.pod_cidr, "/")
    IN  [addr |-> parse_IpAddr(parts[1]).ip, prefix_len |-> parse_number(parts[2], 32)]

\* get_ip_addr of the pod CIDR, the address the bridge is given: the
\* network address plus one.
BridgeAddr(ip_net) ==
    LET a == ip_net.addr
    IN  <<a[1], a[2], a[3], a[4] - (a[4] % HostSpan(ip_net.prefix_len)) + 1>>

\* The addresses a pod may be given.
PodAddrs(ip_net) == hosts(ip_net.addr, ip_net.prefix_len) \ {BridgeAddr(ip_net)}

\* The addresses the GET requests served have returned.
GetReturned(upto) ==
    { parse_IpAddr(served[j].body).ip :
        j \in { i \in ServedGets : i <= upto /\ served[i].body # <<>> } }

\* C39: every address a GET /ipam/ip returns is a host address of the pod
\* CIDR (neither its network nor its broadcast address) and not the bridge
\* address, whatever GET and PUT requests were served before.
C39_GetReturnsPodAddress ==
    server.pc # "down" => GetReturned(Len(served)) \subseteq PodAddrs(ServerCidr)

\* The same as long as every PUT gives back an address a GET has returned.
C39_GetReturnsPodAddressIfPutsReturn ==
    (/\ server.pc # "down"
     /\ server.starts = 1
     /\ \A k \in DOMAIN served : served[k].method = "PUT" =>
           /\ parse_IpAddr(served[k].ip).ok
           /\ parse_IpAddr(served[k].ip).ip \in GetReturned(k - 1))
        => GetReturned(Len(served)) \subseteq PodAddrs(ServerCidr)

(***************************************************************************)
(* Properties of the loader (checked under SpecLoad).                      *)
(***************************************************************************)
\* NET_CONFIG_MAP holds both entries and NODE_MAP every node address.
ConfigWritten ==
    /\ CLUSTER_CIDR_KEY \in DOMAIN NET_CONFIG_MAP
    /\ HOST_IP_KEY \in DOMAIN NET_CONFIG_MAP
    /\ \A i \in DOMAIN node_ips : node_ips[i] \in NODE_MAP

\* C37: a classifier evaluates a packet only when NET_CONFIG_MAP holds the
\* cluster CIDR and the host address and NODE_MAP holds every node address.
C37_NoPacketBeforeConfig ==
    [][last' # last => ConfigWritten]_vars

\* While load() runs, a TCP packet whose headers all load is dropped for the
\* cluster CIDR that is not written yet.
C37_DroppedForMissingConfig ==
    /\ last.prog # "none"
    /\ IsTcp4(last.in)
    /\ last.verdict = TC_ACT_SHOT
    /\ SNAT_IPV4_MAP = <<>>
    /\ CLUSTER_CIDR_KEY \notin DOMAIN NET_CONFIG_MAP

\* While load() runs, a packet of the host itself gets an entry in the NAT
\* map, as the host's address is not in NODE_MAP yet.
C37_NattedForMissingNode ==
    /\ last.prog = "egress"
    /\ from_be32(last.in.src_addr) = HostIp
    /\ last.verdict = TC_ACT_PIPE
    /\ SNAT_IPV4_MAP # <<>>
    /\ HostIp \notin NODE_MAP

(***************************************************************************)
(* Properties of the controller (checked under SpecCtl).                   *)
(***************************************************************************)
\* The object the last reconcile saw asked for a test it had not had.
TestDue == ctl.last.sin.spec.test /\ ~(ctl.last.sin.status.some /\ ctl.last.sin.status.val.tested)

\* The last reconcile published TestRequested, and nothing before it.
PublishedFirst == ctl.last.calls # <<>> /\ ctl.last.calls[1] = "TestRequested"

\* The last reconcile patched the status to what the spec asked for, as the
\* last of its calls.
PatchedLast ==
    /\ ctl.last.calls # <<>>
    /\ ctl.last.calls[Len(ctl.last.calls)] = "patch_status"
    /\ ctl.last.patched = Some(SinabroStatus(ctl.last.sin.spec.test))

\* C31, as claimed: every reconcile of such an object patches the status so
\* that status.tested equals spec.test, and publishes TestRequested, before
\* the patch, exactly when spec.test is true and the object was not tested.
C31_ReconcilePatchesStatus ==
    ctl.last.ran =>
        /\ PatchedLast
        /\ PublishedFirst <=> TestDue

\* C31, amended: a reconcile that returns Ok has patched the status so that
\* status.tested equals spec.test, after publishing TestRequested exactly
\* when the test was due; a reconcile of the object named "illegal" and one
\* that the API server refuses a call of return an error without the patch;
\* TestRequested is never published unless the test was due, and always
\* before anything else.
C31_ReconcilePatchesStatusWhenOk ==
    ctl.last.ran =>
        /\ ctl.last.ret = "Ok" =>
              /\ PatchedLast
              /\ PublishedFirst <=> TestDue
              /\ Len(ctl.last.calls) = (IF TestDue THEN 2 ELSE 1)
              /\ ctl.last.sin.name # "illegal"
        /\ ctl.last.ret # "Ok" =>
              /\ ~ctl.last.patched.some
              /\ \A i \in DOMAIN ctl.last.calls : ctl.last.calls[i] # "patch_status"
        /\ ctl.last.sin.name = "illegal" => ctl.last.ret \in {"IllegalSinabro", "KubeError"}
        /\ PublishedFirst => TestDue
        /\ \A i \in DOMAIN ctl.last.calls :
              ctl.last.calls[i] = "TestRequested" => i = 1

\* An object without status whose spec asks for the test was reconciled:
\* the event was published, then the status patched to tested.
C31_Witness ==
    /\ ctl.last.ran
    /\ ctl.last.ret = "Ok"
    /\ ~ctl.last.sin.status.some
    /\ ctl.last.sin.spec.test
    /\ ctl.last.calls = <<"TestRequested", "patch_status">>
    /\ ctl.obj.val.status = Some(SinabroStatus(TRUE))

(***************************************************************************)
(* Properties of the engine and its typed handles (checked under SpecSk).  *)
(***************************************************************************)
\* The handle and the engine count in one counter, the descriptor is closed
\* only by the drop of the engine and only once, and nothing is sent on the
\* number when it is not the engine's socket.
HandleIsEngine ==
    /\ sk.handle.kind # "none" => sk.handle.seq = sk.engine.seq
    /\ sk.engine.alive => sk.closes = 0
    /\ sk.closes <= 1
    /\ sk.stray = 0
    /\ ~sk.misused

\* C36: a typed handle obtained from a SocketHandle operates on that engine
\* itself: its requests advance the engine's sequence counter, its drop
\* does not close the engine's descriptor, which is closed exactly once,
\* when the engine is dropped, and never used after it was closed.
C36_HandleOperatesOnEngine == HandleIsEngine

\* The same as long as no handle was made of a copy of the engine.
C36_BorrowingHandleOperatesOnEngine == ~sk.copied => HandleIsEngine

\* A request was made through a handle of the other kind, and the handle and
\* then the engine dropped.
C36_BorrowingHandleUsed ==
    /\ ~sk.copied
    /\ sk.engine.seq > 0
    /\ ~sk.engine.alive
    /\ sk.closes = 1

(***************************************************************************)
(* Properties of the CNI plugin (checked under SpecCni).                   *)
(***************************************************************************)
\* The addresses on the interfaces of the containers.
Configured ==
    { parse_IpAddr(cni.pods[id].addr).ip :
        id \in { c \in Containers : cni.pods[c].addr # <<>> } }

\* The addresses that are neither free nor on a container's interface.
Leaked == (hosts_of(CniSubnet) \ ip_store.set) \ Configured

\* C40: every address an ADD obtained is on the container's interface when
\* ADD has reported success, or back in the free set; the DEL of the
\* container puts exactly that address back; no address stays outside the
\* free set without a container that has it.
C40_NoAddressLeaks ==
    cni.up =>
        /\ Leaked = {}
        /\ \A id \in Containers :
              /\ cni.pods[id].state = "added" /\ cni.pods[id].got # <<>>
                    => cni.pods[id].addr = cni.pods[id].got
              /\ cni.pods[id].state = "deleted" /\ cni.pods[id].got # <<>>
                    => parse_IpAddr(cni.pods[id].got).ip \in ip_store.set \cup Configured

\* The same as long as no step of an ADD or a DEL has failed.
C40_NoAddressLeaksWithoutFailure ==
    (cni.up /\ \A id \in Containers : ~cni.pods[id].failed) => Leaked = {}

\* Both containers were added and deleted without a failure.
C40_AddedAndDeleted ==
    /\ \A id \in Containers : cni.pods[id].state = "deleted" /\ ~cni.pods[id].failed
    /\ ip_store.set = hosts_of(CniSubnet)
====
